---- MODULE Spec2Model ----
(***************************************************************************)
(* Model of the chat-ops gateway: the incident lifecycle core              *)
(* (IncidentService), the incident store it persists to                    *)
(* (GormIncidentRepository over the incidents / audit_records tables) and  *)
(* the queues that connect it to the chat console's listeners.             *)
(*                                                                         *)
(* Service calls are made by concurrent goroutines (one per webhook        *)
(* request, one per chat handler).  Every store operation and every        *)
(* channel send is one step, so the steps of different calls interleave    *)
(* exactly where the code lets them.                                       *)
(***************************************************************************)
EXTENDS Integers, Sequences, FiniteSets, TLC

(***************************************************************************)
(* Bounds of the model.                                                    *)
(***************************************************************************)
NumCallers == 2        \* goroutines that call the service concurrently
NumFingerprints == 2   \* distinct alert fingerprints
MaxIncidents == 2      \* rows the incidents table may hold
MaxAudit == 2          \* rows the audit_records table may hold
NotifChanCap == 1      \* capacity of the notification channel (scaled down)
UpdateChanCap == 1     \* capacity of the update channel (scaled down)

Callers == 1..NumCallers
Fingerprints == 1..NumFingerprints
IncidentIDs == 1..MaxIncidents
Users == {1}

(***************************************************************************)
(* models.IncidentStatus and models.ActionType.                            *)
(***************************************************************************)
StatusActive == "active"
StatusResolved == "resolved"
StatusRejected == "rejected"
IncidentStatus == {StatusActive, StatusResolved, StatusRejected}

ActionRollbackDeployment == "rollback_deployment"
ActionGetPodLogs == "get_pod_logs"
ActionTypes == {ActionRollbackDeployment, ActionGetPodLogs}
\* the two actions that take their last parameter from a text of the operator
ActionScaleDeployment == "scale_deployment"
ActionAllocateHardware == "allocate_hardware"
\* the action that deletes a pod, and the listing the console makes after it
ActionDeletePod == "delete_pod"
ActionListPodsForDeployment == "list_pods_for_deployment"

\* sql.NullInt64 with Valid = false
NULL == -1

(***************************************************************************)
(* State.                                                                  *)
(***************************************************************************)
VARIABLES
    incidents,           \* incidents table: row i is the incident with id i
    auditRecords,        \* audit_records table, in insertion (primary key) order
    pc,                  \* per caller: the step of the service call it is in
    loc,                 \* per caller: the local variables of its call
    last,                \* the service step just taken: what it found, wrote and returned
    notifySenders,       \* goroutines spawned by CreateIncidentFromAlert, blocked on the send
    notificationChan,    \* buffered channel of new incidents
    updateChan,          \* buffered channel of changed incidents
    viewRegistry,        \* Bot.viewRegistry: incident id -> (view key -> editable)
    ignoreNextUpdateFor, \* Bot.ignoreNextUpdateFor: incidents whose next update is skipped
    messages,            \* the chat platform: message id -> what the message shows
    topics,              \* the chat platform: thread id -> "open", "closed" or "deleted"
    alertChannelID,      \* Bot.alertChannelID from the configuration; 0 is "not configured"
    executor,            \* the ExecutorClient main() wired: "mock" or "http"
    returned,            \* per fingerprint: id last returned by CreateIncidentFromAlert
    userStates,          \* Bot.userStates: per user, the three pending-input fields
    handler,             \* per caller: the console handler it runs and where it is
    owed,                \* per incident: surfaces registered at its last change and
                         \* not refused an edit since
    topicDeletionChan,   \* buffered channel of incidents whose thread is to be deleted
    sweep,               \* the retention job: its threshold and the incidents it has
                         \* found and not sent yet
    webhookToken,        \* cfg.Server.WebhookToken; the empty one is "no secret configured"
    input,               \* the request or argument a front-end function is applied to
    output,              \* what the function answered
    goroutines           \* the bot's goroutines: what each is yet to execute of the
                         \* function it runs, and the locks of the Bot it holds

vars == <<incidents, auditRecords, pc, loc, last, notifySenders, notificationChan,
          updateChan, viewRegistry, ignoreNextUpdateFor, messages, topics,
          alertChannelID, executor, returned, userStates, handler, owed,
          topicDeletionChan, sweep, webhookToken, input, output, goroutines>>

storeVars == <<incidents, auditRecords>>
chanVars == <<notifySenders, notificationChan, updateChan>>
botVars == <<viewRegistry, ignoreNextUpdateFor, messages, topics>>
consoleVars == <<userStates, handler, owed>>
sweepVars == <<topicDeletionChan, sweep>>
probeVars == <<input, output>>
\* the configuration, and with it what no step of the service calls, of the two
\* listeners above or of the console handlers writes
cfgVars == <<alertChannelID, executor, webhookToken, sweepVars, probeVars, goroutines>>

(***************************************************************************)
(* Values.                                                                 *)
(***************************************************************************)
\* the zero models.Incident; ID 0 stands for "no incident".  TelegramMessageID
\* stands for the pair (TelegramChatID, TelegramMessageID), which the code
\* always writes together.
NoIncident ==
    [ID |-> 0, Fingerprint |-> 0, Status |-> "", Severity |-> "",
     EndsAt |-> 0, ResolvedBy |-> 0, RejectionReason |-> "",
     TelegramMessageID |-> NULL, TelegramTopicID |-> NULL, AuditLog |-> <<>>]

\* a call's arguments: models.ActionRequest, or the arguments of UpdateStatus
NoRequest == [Action |-> "", IncidentID |-> 0, UserID |-> 0, Status |-> "", Reason |-> ""]
NoResult == [Message |-> "", Error |-> ""]

\* the local variables of a call:
\*   found    : the incident as the store returned it
\*   incident : the caller's copy, as the call has changed it so far
\*   prev     : the id an earlier call returned for the alert's fingerprint, if
\*              that incident was Active when this call looked the fingerprint up
NoLocal == [req |-> NoRequest, found |-> NoIncident, incident |-> NoIncident,
            result |-> NoResult, prev |-> 0]

\* last, when the step just taken was no persisting or returning step of a call:
\*   op, step  : the call ("create", "execute", "status") and what the step did
\*               ("persist": it wrote to the store; "return": the call returned)
\*   id, err, result : the incident id, the error and the ActionResult returned
\*   call      : the local variables of the call at that step
\*   before    : the two tables as they were before a step that wrote to them
NoStore == [incidents |-> <<>>, auditRecords |-> <<>>]
\*   views     : the views of the incident as a console step found them
\*   failed    : the surfaces whose edit the chat platform refused in that step
\*   text      : the text of the operator that a console step did not pass on
NoStep == [op |-> "", step |-> "", id |-> 0, err |-> "", result |-> NoResult,
           call |-> NoLocal, before |-> NoStore, views |-> <<>>, failed |-> {},
           text |-> <<>>]

\* the retention job between two ticks
NoSweep == [threshold |-> 0, found |-> <<>>]

\* awaitingInputState and userState; the nil *awaitingInputState is NoInputState,
\* and a user without an entry in the map is one whose three fields are zero
NoInputState == [Request |-> NoRequest, MessageID |-> 0]
NoUserState ==
    [AwaitingRejectReasonFor |-> 0, AwaitingReplicaCountFor |-> NoInputState,
     AwaitingHardwareRequestFor |-> NoInputState]

\* a caller that runs no console handler:
\*   name : the handler; step : what it does next; id : the incident of the
\*   pressed message; msg : the pressed message; user : the operator;
\*   failed : the ActionResult its call returned carries an error
NoHandler == [name |-> "", step |-> "", id |-> 0, msg |-> 0, user |-> 0, failed |-> FALSE]

\* the goroutines of the bot: the two listeners Start spawns and one that
\* runs a handler of the operator console
Goroutines == {"startNotifier", "startUpdateListener", "handler"}

\* a goroutine that is between two functions:
\*   code  : the steps it has yet to take of the function it runs
\*   fatal : the runtime has stopped the process
\*   held  : the locks of the Bot it holds, each with its mode
\*   views : the surface set its lookup in the registry returned, once the
\*           registry has dropped that set; live : the set it got is still the
\*           one in the registry; seen : the keys its loop has visited
\*   raced : a registration wrote to the set while the loop was over it
NoGoroutine == [code |-> <<>>, held |-> {}, views |-> <<>>, live |-> FALSE, seen |-> {},
                raced |-> FALSE, fatal |-> FALSE]

\* Alertmanager derives the fingerprint from the label set, so the labels of an
\* alert are a function of its fingerprint
SeverityOf(fp) == IF fp % 2 = 1 THEN "critical" ELSE "warning"
Alerts == {[Fingerprint |-> fp, Severity |-> SeverityOf(fp)] : fp \in Fingerprints}

ActionRequests ==
    {[NoRequest EXCEPT !.Action = a, !.IncidentID = i, !.UserID = u] :
        a \in ActionTypes, i \in IncidentIDs, u \in Users}

\* the (status, reason) pairs the console passes to UpdateStatus: the reason is
\* the operator's text for a rejection and empty otherwise
StatusRequests ==
    {[status |-> StatusActive, reason |-> ""],
     [status |-> StatusResolved, reason |-> ""],
     [status |-> StatusRejected, reason |-> "false positive"]}

\* the wall clock read by time.Now()
Now == 1

\* ids the chat platform gives to the messages and the thread of incident id
PrimaryMsg(id) == 10 * id + 1
SummaryMsg(id) == 10 * id + 2
TopicOf(id) == 10 * id + 3
TopicDeletionChanCap == 2    \* capacity of the topic deletion channel (scaled down)

(***************************************************************************)
(* The store: GormIncidentRepository over the two tables.                  *)
(***************************************************************************)
\* Preload("AuditLog"): the audit records of incident id, in primary key order
AuditLogIn(table, id) == SelectSeq(table, LAMBDA r : r.IncidentID = id)
AuditLogOf(id) == AuditLogIn(auditRecords, id)

FindByID(id) ==
    IF id \in DOMAIN incidents
        THEN [incidents[id] EXCEPT !.AuditLog = AuditLogOf(id)]
        ELSE NoIncident

\* a lookup that never finds the fingerprint
FindByFingerprintMiss(fp) == NoIncident

\* First(): the row with the smallest primary key among those that match
FindByFingerprint(fp) ==
    LET hits == {i \in DOMAIN incidents : incidents[i].Fingerprint = fp}
    IN  IF hits = {} THEN NoIncident
        ELSE incidents[CHOOSE i \in hits : \A j \in hits : i <= j]

\* an incidents table without the unique index on fingerprint
NoUniqueIndex(fp) == FALSE

\* fingerprint TEXT UNIQUE NOT NULL: does an insert of fp violate the index?
UniqueViolation(fp) == \E i \in DOMAIN incidents : incidents[i].Fingerprint = fp

ListActive == {i \in DOMAIN incidents : incidents[i].Status = StatusActive}

\* a Save that inserts every record of the copy's AuditLog again
AllRecords(incident) == incident.AuditLog

\* Save(incident): every column of the row is written from the caller's copy;
\* the records of its AuditLog that have no primary key yet are inserted
NewRecords(incident) == SelectSeq(incident.AuditLog, LAMBDA r : r.ID = 0)

RECURSIVE Inserted(_, _)
Inserted(recs, firstID) ==
    IF recs = <<>> THEN <<>>
    ELSE <<[Head(recs) EXCEPT !.ID = firstID]>> \o Inserted(Tail(recs), firstID + 1)

SavedRow(incident) == [incident EXCEPT !.AuditLog = <<>>]

\* a Save that replaces the incident's stored records by those of the copy
ReplacedAudit(incident) ==
    LET others == SelectSeq(auditRecords, LAMBDA r : r.IncidentID # incident.ID)
    IN  others \o Inserted(incident.AuditLog, Len(others) + 1)

SavedAudit(incident) ==
    auditRecords \o Inserted(NewRecords(incident), Len(auditRecords) + 1)

\* the store as a step that writes to it found it
StoreNow == [incidents |-> incidents, auditRecords |-> auditRecords]

(***************************************************************************)
(* Init: the state after main() has wired the service and the bot.         *)
(***************************************************************************)
Started(channel, client) ==
    /\ incidents = <<>>
    /\ auditRecords = <<>>
    /\ pc = [p \in Callers |-> "idle"]
    /\ loc = [p \in Callers |-> NoLocal]
    /\ last = NoStep
    /\ notifySenders = {}
    /\ notificationChan = <<>>
    /\ updateChan = <<>>
    /\ viewRegistry = [i \in IncidentIDs |-> <<>>]
    /\ ignoreNextUpdateFor = {}
    /\ messages = <<>>
    /\ topics = <<>>
    /\ alertChannelID = channel
    /\ executor = client
    /\ returned = [f \in Fingerprints |-> 0]
    /\ userStates = [u \in Users |-> NoUserState]
    /\ handler = [p \in Callers |-> NoHandler]
    /\ owed = [i \in IncidentIDs |-> {}]
    /\ topicDeletionChan = <<>>
    /\ sweep = NoSweep
    /\ goroutines = [g \in Goroutines |-> NoGoroutine]

\* no secret for the webhook, and no front-end function under observation
Wired(channel, client) ==
    /\ Started(channel, client)
    /\ webhookToken = <<>>
    /\ input = <<>>
    /\ output = <<>>

\* the default configuration: no alert channel configured, the mock Executor
Init == Wired(0, "mock")

(***************************************************************************)
(* IncidentService.CreateIncidentFromAlert.                                *)
(***************************************************************************)
InFlight(steps) == Cardinality({p \in Callers : pc[p] \in steps})

\* the call of caller p returns: its locals go away, the step is observed
Return(p, observed) ==
    /\ pc' = [pc EXCEPT ![p] = "idle"]
    /\ loc' = [loc EXCEPT ![p] = NoLocal]
    /\ last' = [observed EXCEPT !.step = "return"]

\* a step that neither writes for a call nor returns from one
Unobserved == last' = NoStep

\* the incident an earlier call returned for fp, if it is Active now
StillActive(fp) ==
    IF returned[fp] # 0 /\ incidents[returned[fp]].Status = StatusActive
        THEN returned[fp]
        ELSE 0

\* lines 309-317: the fingerprint lookup and the early returns
CreateIncidentFromAlert_Find(p, alert, dbErr) ==
    /\ pc[p] = "idle"
    /\ LET existing == FindByFingerprint(alert.Fingerprint)
           call == [NoLocal EXCEPT !.found = existing,
                                   !.prev = StillActive(alert.Fingerprint)]
       IN  IF dbErr
               THEN /\ Return(p, [NoStep EXCEPT !.op = "create", !.err = "db",
                                                !.call = [call EXCEPT !.found = NoIncident]])
                    /\ UNCHANGED returned
           ELSE IF existing.ID # 0 /\ existing.Status = StatusActive
               THEN /\ Return(p, [NoStep EXCEPT !.op = "create", !.id = existing.ID,
                                                !.call = call])
                    /\ returned' = [returned EXCEPT ![alert.Fingerprint] = existing.ID]
           ELSE /\ Len(incidents) + InFlight({"create"}) < MaxIncidents
                /\ pc' = [pc EXCEPT ![p] = "create"]
                /\ loc' = [loc EXCEPT ![p] =
                       [call EXCEPT !.incident =
                           [NoIncident EXCEPT !.Fingerprint = alert.Fingerprint,
                                              !.Status = StatusActive,
                                              !.Severity = alert.Severity]]]
                /\ Unobserved
                /\ UNCHANGED returned
    /\ UNCHANGED <<storeVars, chanVars, botVars, cfgVars>>

\* a create that sends on the notification channel itself before it returns
CreateIncidentFromAlert_CreateSync(p) ==
    /\ pc[p] = "create"
    /\ Len(notificationChan) < NotifChanCap
    /\ LET incident == [loc[p].incident EXCEPT !.ID = Len(incidents) + 1]
       IN  /\ ~UniqueViolation(incident.Fingerprint)
           /\ incidents' = Append(incidents, SavedRow(incident))
           /\ notificationChan' = Append(notificationChan, incident.ID)
           /\ returned' = [returned EXCEPT ![incident.Fingerprint] = incident.ID]
           /\ Return(p, [NoStep EXCEPT !.op = "create", !.id = incident.ID,
                                       !.call = [loc[p] EXCEPT !.incident = incident],
                                       !.before = StoreNow])
    /\ UNCHANGED <<auditRecords, notifySenders, updateChan, botVars, cfgVars>>

\* lines 341-350: repo.Create, the notifying goroutine, the return
CreateIncidentFromAlert_Create(p) ==
    /\ pc[p] = "create"
    /\ LET incident == [loc[p].incident EXCEPT !.ID = Len(incidents) + 1]
       IN  IF UniqueViolation(incident.Fingerprint)
               THEN /\ Return(p, [NoStep EXCEPT !.op = "create", !.err = "unique",
                                                !.call = loc[p]])
                    /\ UNCHANGED <<incidents, notifySenders, returned>>
               ELSE /\ incidents' = Append(incidents, SavedRow(incident))
                    /\ notifySenders' = notifySenders \cup {incident.ID}
                    /\ returned' = [returned EXCEPT ![incident.Fingerprint] = incident.ID]
                    /\ Return(p, [NoStep EXCEPT !.op = "create", !.id = incident.ID,
                                                !.call = [loc[p] EXCEPT !.incident = incident],
                                                !.before = StoreNow])
    /\ UNCHANGED <<auditRecords, notificationChan, updateChan, botVars, cfgVars>>

\* a sender that stays to send its incident again
NotifySendAgain(id) ==
    /\ id \in notifySenders
    /\ Len(notificationChan) < NotifChanCap
    /\ notificationChan' = Append(notificationChan, id)
    /\ Unobserved
    /\ UNCHANGED <<storeVars, pc, loc, notifySenders, updateChan, botVars, cfgVars, returned>>

\* lines 346-348: a spawned goroutine gets its incident into the channel
NotifySend(id) ==
    /\ id \in notifySenders
    /\ Len(notificationChan) < NotifChanCap
    /\ notificationChan' = Append(notificationChan, id)
    /\ notifySenders' = notifySenders \ {id}
    /\ Unobserved
    /\ UNCHANGED <<storeVars, pc, loc, updateChan, botVars, cfgVars, returned>>

(***************************************************************************)
(* The Executor (service.ExecutorClient).  A call ends in one of three     *)
(* ways: the action succeeded (Message set, Error empty), the Executor     *)
(* reported a failure (Error set), or, with the HTTP client, the exchange  *)
(* itself failed and the client returned the zero ActionResult.            *)
(***************************************************************************)
ExecutorOutcomes ==
    IF executor = "mock" THEN {"ok", "error"} ELSE {"ok", "error", "no_response"}

ExecutorResult(outcome) ==
    CASE outcome = "ok" -> [Message |-> "done", Error |-> ""]
      [] outcome = "error" ->
             [Message |-> IF executor = "mock" THEN "simulated failure" ELSE "",
              Error |-> "failed"]
      [] OTHER -> [Message |-> "", Error |-> ""]

(***************************************************************************)
(* IncidentService.ExecuteAction.                                          *)
(***************************************************************************)
\* the audit_records rows the calls in flight may still insert
AuditBudget == Len(auditRecords) + InFlight({"exec_update", "status_update"})

\* an audit record that reports success whatever the Executor returned
AuditEntryAlwaysSuccess(req, result) ==
    [ID |-> 0, IncidentID |-> req.IncidentID, UserID |-> req.UserID,
     Action |-> req.Action, new_status |-> "", reason |-> "",
     Success |-> TRUE, Result |-> result.Message]

\* lines 369-377: the audit record of a finished Executor call
AuditEntry(req, result) ==
    [ID |-> 0, IncidentID |-> req.IncidentID, UserID |-> req.UserID,
     Action |-> req.Action, new_status |-> "", reason |-> "",
     Success |-> (result.Error = ""), Result |-> result.Message]

\* an ExecuteAction that resolves the incident after every successful action
ExecutedResolving(incident, req, result) ==
    [incident EXCEPT !.AuditLog = Append(@, AuditEntry(req, result)),
                     !.Status = IF result.Error = "" THEN StatusResolved ELSE @]

\* an ExecuteAction for which rollback_deployment is a closing action
ExecutedClosing(incident, req, result) ==
    LET closes == req.Action = ActionRollbackDeployment /\ result.Error = ""
    IN  [incident EXCEPT !.AuditLog = Append(@, AuditEntry(req, result)),
                         !.Status = IF closes THEN StatusResolved ELSE @,
                         !.ResolvedBy = IF closes THEN req.UserID ELSE @,
                         !.EndsAt = IF closes THEN Now ELSE @]

\* lines 362-381: what ExecuteAction does to the incident it loaded
Executed(incident, req, result) ==
    [incident EXCEPT !.AuditLog = Append(@, AuditEntry(req, result))]

\* lines 362-381: repo.FindByID and the not-found return; then the Executor
\* call, the audit record and its append to the loaded copy (the Executor
\* call touches no state of the gateway, so it is taken in the step of the load)
ExecuteAction_Find(p, req, outcome) ==
    /\ pc[p] = "idle"
    /\ AuditBudget < MaxAudit
    /\ LET incident == FindByID(req.IncidentID)
           result == ExecutorResult(outcome)
       IN  IF incident.ID = 0
               THEN /\ outcome = "ok"
                    /\ Return(p, [NoStep EXCEPT
                                     !.op = "execute", !.err = "not found",
                                     !.result = [Message |-> "", Error |-> "Incident not found"],
                                     !.call = [NoLocal EXCEPT !.req = req]])
               ELSE /\ pc' = [pc EXCEPT ![p] = "exec_update"]
                    /\ loc' = [loc EXCEPT ![p] =
                          [NoLocal EXCEPT !.req = req, !.result = result,
                                          !.found = incident,
                                          !.incident = Executed(incident, req, result)]]
                    /\ Unobserved
    /\ UNCHANGED <<storeVars, chanVars, botVars, cfgVars, returned>>

\* an ExecuteAction that returns the zero result when the update fails
ExecuteAction_UpdateDropsResult(p, dbOk) ==
    /\ pc[p] = "exec_update"
    /\ IF dbOk
           THEN /\ incidents' = [incidents EXCEPT ![loc[p].incident.ID] = SavedRow(loc[p].incident)]
                /\ auditRecords' = SavedAudit(loc[p].incident)
                /\ pc' = [pc EXCEPT ![p] = "exec_enqueue"]
                /\ last' = [NoStep EXCEPT !.op = "execute", !.step = "persist",
                                          !.id = loc[p].incident.ID, !.result = loc[p].result,
                                          !.call = loc[p], !.before = StoreNow]
                /\ UNCHANGED loc
           ELSE /\ Return(p, [NoStep EXCEPT !.op = "execute", !.err = "db",
                                            !.id = loc[p].incident.ID, !.call = loc[p]])
                /\ UNCHANGED storeVars
    /\ UNCHANGED <<chanVars, botVars, cfgVars, returned>>

\* lines 383-385: repo.Update and the return of the result with its error
ExecuteAction_Update(p, dbOk) ==
    /\ pc[p] = "exec_update"
    /\ IF dbOk
           THEN /\ incidents' = [incidents EXCEPT ![loc[p].incident.ID] = SavedRow(loc[p].incident)]
                /\ auditRecords' = SavedAudit(loc[p].incident)
                /\ pc' = [pc EXCEPT ![p] = "exec_enqueue"]
                /\ last' = [NoStep EXCEPT !.op = "execute", !.step = "persist",
                                          !.id = loc[p].incident.ID, !.result = loc[p].result,
                                          !.call = loc[p], !.before = StoreNow]
                /\ UNCHANGED loc
           ELSE /\ Return(p, [NoStep EXCEPT !.op = "execute", !.err = "db",
                                            !.id = loc[p].incident.ID,
                                            !.result = loc[p].result, !.call = loc[p]])
                /\ UNCHANGED storeVars
    /\ UNCHANGED <<chanVars, botVars, cfgVars, returned>>

\* what a listener reads from the *models.Incident it receives
Event(incident) ==
    [ID |-> incident.ID, Status |-> incident.Status, ResolvedBy |-> incident.ResolvedBy,
     TelegramMessageID |-> incident.TelegramMessageID]

\* a send that gives the event up when the channel is full
ExecuteAction_EnqueueOrDrop(p) ==
    /\ pc[p] = "exec_enqueue"
    /\ updateChan' = IF Len(updateChan) < UpdateChanCap
                         THEN Append(updateChan, Event(loc[p].incident))
                         ELSE updateChan
    /\ Return(p, [NoStep EXCEPT !.op = "execute", !.id = loc[p].incident.ID,
                                !.result = loc[p].result, !.call = loc[p]])
    /\ UNCHANGED <<storeVars, notifySenders, notificationChan, botVars, cfgVars, returned>>

\* lines 387-389: the blocking send on updateChan and the return
ExecuteAction_Enqueue(p) ==
    /\ pc[p] = "exec_enqueue"
    /\ Len(updateChan) < UpdateChanCap
    /\ updateChan' = Append(updateChan, Event(loc[p].incident))
    /\ Return(p, [NoStep EXCEPT !.op = "execute", !.id = loc[p].incident.ID,
                                !.result = loc[p].result, !.call = loc[p]])
    /\ UNCHANGED <<storeVars, notifySenders, notificationChan, botVars, cfgVars, returned>>

(***************************************************************************)
(* IncidentService.UpdateStatus.                                           *)
(***************************************************************************)
\* an UpdateStatus that sets the status and stamps no rejection reason
StampedWithoutReason(incident, userID, status, reason) ==
    [incident EXCEPT
        !.Status = status,
        !.EndsAt = IF status \in {StatusResolved, StatusRejected} THEN Now ELSE @,
        !.ResolvedBy = IF status = StatusResolved THEN userID ELSE @]

\* lines 422-433: the fields UpdateStatus sets on the loaded incident
Stamped(incident, userID, status, reason) ==
    [incident EXCEPT
        !.Status = status,
        !.EndsAt = IF status \in {StatusResolved, StatusRejected} THEN Now ELSE @,
        !.ResolvedBy = IF status = StatusResolved THEN userID ELSE @,
        !.RejectionReason = IF status = StatusRejected THEN reason ELSE @]

\* lines 435-446: the update_status audit record
StatusEntry(userID, incidentID, status, reason) ==
    [ID |-> 0, IncidentID |-> incidentID, UserID |-> userID,
     Action |-> "update_status", new_status |-> status, reason |-> reason,
     Success |-> TRUE, Result |-> "Status updated to " \o status]

\* lines 417-447: repo.FindByID, the transition and the append to the copy
UpdateStatus_Find(p, userID, incidentID, status, reason) ==
    /\ pc[p] = "idle"
    /\ AuditBudget < MaxAudit
    /\ LET incident == FindByID(incidentID)
           req == [Action |-> "update_status", IncidentID |-> incidentID,
                   UserID |-> userID, Status |-> status, Reason |-> reason]
       IN  IF incident.ID = 0
               THEN Return(p, [NoStep EXCEPT !.op = "status", !.err = "not found",
                                             !.call = [NoLocal EXCEPT !.req = req]])
               ELSE /\ pc' = [pc EXCEPT ![p] = "status_update"]
                    /\ loc' = [loc EXCEPT ![p] =
                          [NoLocal EXCEPT
                              !.req = req,
                              !.found = incident,
                              !.incident =
                                  [Stamped(incident, userID, status, reason) EXCEPT
                                      !.AuditLog = Append(@, StatusEntry(userID, incidentID,
                                                                         status, reason))]]]
                    /\ Unobserved
    /\ UNCHANGED <<storeVars, chanVars, botVars, cfgVars, returned>>

\* line 449: repo.Update; on an error the call returns it without an event
UpdateStatus_Update(p, dbOk) ==
    /\ pc[p] = "status_update"
    /\ IF dbOk
           THEN /\ incidents' = [incidents EXCEPT ![loc[p].incident.ID] = SavedRow(loc[p].incident)]
                /\ auditRecords' = SavedAudit(loc[p].incident)
                /\ pc' = [pc EXCEPT ![p] = "status_enqueue"]
                /\ last' = [NoStep EXCEPT !.op = "status", !.step = "persist",
                                          !.id = loc[p].incident.ID,
                                          !.call = loc[p], !.before = StoreNow]
                /\ UNCHANGED loc
           ELSE /\ Return(p, [NoStep EXCEPT !.op = "status", !.err = "db",
                                            !.id = loc[p].incident.ID, !.call = loc[p]])
                /\ UNCHANGED storeVars
    /\ UNCHANGED <<chanVars, botVars, cfgVars, returned>>

\* lines 450-453: the blocking send on updateChan and the return
UpdateStatus_Enqueue(p) ==
    /\ pc[p] = "status_enqueue"
    /\ Len(updateChan) < UpdateChanCap
    /\ updateChan' = Append(updateChan, Event(loc[p].incident))
    /\ Return(p, [NoStep EXCEPT !.op = "status", !.id = loc[p].incident.ID,
                                !.call = loc[p]])
    /\ UNCHANGED <<storeVars, notifySenders, notificationChan, botVars, cfgVars, returned>>

(***************************************************************************)
(* The chat console's listeners (Bot.Start).                               *)
(***************************************************************************)
isHighSeverity(incident) == incident.Severity \in {"critical", "high"}

\* what a message shows of an incident: its state and its control set
Rendering(incident, keyboard) ==
    [Incident |-> incident.ID, Status |-> incident.Status,
     History |-> Len(incident.AuditLog), Keyboard |-> keyboard]

\* SetTelegramMessageID / SetTelegramTopicID: an UPDATE of the named columns only
SetTelegramMessageID(rows, id, messageID) ==
    [rows EXCEPT ![id].TelegramMessageID = messageID]

SetTelegramTopicID(rows, id, topicID) ==
    [rows EXCEPT ![id].TelegramTopicID = topicID]

\* a telebot.Editable: MessageSig() gives its message id and its chat id
Editable(chat, msg) == [ChatID |-> chat, MessageID |-> msg]

\* getViewRegistryKey: fmt.Sprintf("%d-%s", chatID, msgSig)
getViewRegistryKey(editable) == <<editable.ChatID, editable.MessageID>>

\* a registration that files the surface under a key of its own every time
addIncidentViewAgain(registry, id, editable) ==
    [registry EXCEPT ![id] =
        (<<editable.ChatID, editable.MessageID, Cardinality(DOMAIN @)>> :> editable) @@ @]

addIncidentView(registry, id, editable) ==
    [registry EXCEPT ![id] = (getViewRegistryKey(editable) :> editable) @@ @]

removeIncidentView(registry, id) == [registry EXCEPT ![id] = <<>>]

\* the messages registered as views of incident id
ViewsIn(views) == {views[k].MessageID : k \in DOMAIN views}
Views(id) == ViewsIn(viewRegistry[id])

\* handleLowSeverityIncident: the post in the channel, its binding, its view
handleLowSeverityIncident(rows, incident, sendOk) ==
    IF sendOk
        THEN /\ messages' = (PrimaryMsg(incident.ID) :> Rendering(incident, "actions")) @@ messages
             /\ incidents' = SetTelegramMessageID(rows, incident.ID, PrimaryMsg(incident.ID))
             /\ viewRegistry' = addIncidentView(viewRegistry, incident.ID,
                                              Editable(alertChannelID, PrimaryMsg(incident.ID)))
        ELSE /\ incidents' = rows
             /\ UNCHANGED <<messages, viewRegistry>>

\* handleHighSeverityIncident: a thread with the detail post, a summary in the channel
handleHighSeverityIncident(incident, topicOk, sendOk, summaryOk) ==
    IF ~topicOk
        THEN /\ handleLowSeverityIncident(incidents, incident, sendOk)
             /\ UNCHANGED topics
    ELSE /\ topics' = (TopicOf(incident.ID) :> "open") @@ topics
         /\ IF ~sendOk
                THEN /\ incidents' = SetTelegramTopicID(incidents, incident.ID, TopicOf(incident.ID))
                     /\ UNCHANGED <<messages, viewRegistry>>
                ELSE /\ incidents' = SetTelegramMessageID(
                                         SetTelegramTopicID(incidents, incident.ID, TopicOf(incident.ID)),
                                         incident.ID, PrimaryMsg(incident.ID))
                     /\ messages' =
                            IF summaryOk
                                THEN (PrimaryMsg(incident.ID) :> Rendering(incident, "actions"))
                                     @@ (SummaryMsg(incident.ID) :> Rendering(incident, "link"))
                                     @@ messages
                                ELSE (PrimaryMsg(incident.ID) :> Rendering(incident, "actions"))
                                     @@ messages
                     /\ viewRegistry' =
                            IF summaryOk
                                THEN addIncidentView(
                                         addIncidentView(viewRegistry, incident.ID,
                                              Editable(alertChannelID, PrimaryMsg(incident.ID))),
                                         incident.ID,
                                         Editable(alertChannelID, SummaryMsg(incident.ID)))
                                ELSE addIncidentView(viewRegistry, incident.ID,
                                              Editable(alertChannelID, PrimaryMsg(incident.ID)))

\* startNotifier: one iteration of the loop over notificationChan.  The event
\* is the incident CreateIncidentFromAlert built: Active, no audit records.
startNotifier(topicOk, sendOk, summaryOk) ==
    /\ notificationChan # <<>>
    /\ notificationChan' = Tail(notificationChan)
    /\ LET id == Head(notificationChan)
           incident == [NoIncident EXCEPT !.ID = id,
                                          !.Fingerprint = incidents[id].Fingerprint,
                                          !.Severity = incidents[id].Severity,
                                          !.Status = StatusActive]
       IN  IF alertChannelID = 0
               THEN UNCHANGED <<incidents, messages, topics, viewRegistry>>
           ELSE IF isHighSeverity(incident)
               THEN handleHighSeverityIncident(incident, topicOk, sendOk, summaryOk)
           ELSE /\ handleLowSeverityIncident(incidents, incident, sendOk)
                /\ UNCHANGED topics
    /\ Unobserved
    /\ UNCHANGED <<auditRecords, pc, loc, notifySenders, updateChan, ignoreNextUpdateFor,
                   cfgVars, returned>>

\* updateIncidentView, lines 1441-1450: the control set a surface is given
KeyboardFor(incident, msg) ==
    IF incident.TelegramMessageID # NULL /\ msg = incident.TelegramMessageID
        THEN "incident"
    ELSE IF isHighSeverity(incident) THEN "summary"
    ELSE "incident"

\* an update that gives up at the first edit the chat platform refuses
updateIncidentViewUntilFailure(incident, failed) ==
    [m \in DOMAIN messages |->
        IF m \in Views(incident.ID) /\ failed = {}
            THEN Rendering(incident, KeyboardFor(incident, m))
            ELSE messages[m]]

\* updateIncidentView: an edit of every registered surface; the edits of the
\* surfaces in failed are refused by the chat platform
updateIncidentView(incident, failed) ==
    [m \in DOMAIN messages |->
        IF m \in Views(incident.ID) \ failed
            THEN Rendering(incident, KeyboardFor(incident, m))
            ELSE messages[m]]

\* what an iteration of the update listener did with the event it received
Listened(event, did, failed) ==
    [NoStep EXCEPT !.op = "update", !.step = did, !.id = event.ID,
                   !.call = [NoLocal EXCEPT !.incident = event @@ NoIncident],
                   !.views = viewRegistry[event.ID], !.failed = failed]

\* a listener that skips the update of a marked incident and leaves the mark
startUpdateListenerKeepingMark(failed, closeOk) ==
    /\ updateChan # <<>>
    /\ updateChan' = Tail(updateChan)
    /\ LET event == Head(updateChan)
           freshIncident == FindByID(event.ID)
       IN  IF event.ID \in ignoreNextUpdateFor \/ event.TelegramMessageID = NULL
               THEN /\ failed = {} /\ closeOk
                    /\ last' = Listened(event, IF event.ID \in ignoreNextUpdateFor
                                                   THEN "ignored" ELSE "skipped", failed)
                    /\ UNCHANGED <<ignoreNextUpdateFor, messages, topics>>
           ELSE /\ failed \subseteq Views(event.ID)
                /\ last' = Listened(event, "edited", failed)
                /\ messages' = updateIncidentView(freshIncident, failed)
                /\ UNCHANGED <<ignoreNextUpdateFor, topics>>
    /\ UNCHANGED <<storeVars, pc, loc, notifySenders, notificationChan, viewRegistry,
                   cfgVars, returned>>

\* startUpdateListener: one iteration of the loop over updateChan
startUpdateListener(failed, closeOk) ==
    /\ updateChan # <<>>
    /\ updateChan' = Tail(updateChan)
    /\ LET event == Head(updateChan)
           freshIncident == FindByID(event.ID)
       IN  IF event.ID \in ignoreNextUpdateFor
               THEN /\ ignoreNextUpdateFor' = ignoreNextUpdateFor \ {event.ID}
                    /\ failed = {} /\ closeOk
                    /\ last' = Listened(event, "ignored", failed)
                    /\ UNCHANGED <<messages, topics>>
           ELSE IF event.TelegramMessageID = NULL
               THEN /\ failed = {} /\ closeOk
                    /\ last' = Listened(event, "skipped", failed)
                    /\ UNCHANGED <<ignoreNextUpdateFor, messages, topics>>
           ELSE /\ failed \subseteq Views(event.ID)
                /\ last' = Listened(event, "edited", failed)
                /\ messages' = updateIncidentView(freshIncident, failed)
                /\ IF /\ freshIncident.Status \in {StatusResolved, StatusRejected}
                      /\ freshIncident.TelegramTopicID # NULL
                      /\ freshIncident.TelegramTopicID \in DOMAIN topics
                      /\ topics[freshIncident.TelegramTopicID] = "open"
                      /\ closeOk
                       THEN topics' = [topics EXCEPT ![freshIncident.TelegramTopicID] = "closed"]
                       ELSE UNCHANGED topics
                /\ UNCHANGED ignoreNextUpdateFor
    /\ UNCHANGED <<storeVars, pc, loc, notifySenders, notificationChan, viewRegistry,
                   cfgVars, returned>>

\* the sets of surfaces whose edit the chat platform may refuse
StaleSurfaces == UNION {SUBSET Views(id) : id \in IncidentIDs}

\* the service and the two listeners; no console handler runs
Next ==
    /\ UNCHANGED consoleVars
    /\ \/ \E p \in Callers, alert \in Alerts, dbErr \in BOOLEAN :
              CreateIncidentFromAlert_Find(p, alert, dbErr)
       \/ \E p \in Callers : CreateIncidentFromAlert_Create(p)
       \/ \E id \in IncidentIDs : NotifySend(id)
       \/ \E p \in Callers, req \in ActionRequests, outcome \in ExecutorOutcomes :
              ExecuteAction_Find(p, req, outcome)
       \/ \E p \in Callers, dbOk \in BOOLEAN : ExecuteAction_Update(p, dbOk)
       \/ \E p \in Callers : ExecuteAction_Enqueue(p)
       \/ \E p \in Callers, userID \in Users, incidentID \in IncidentIDs, sr \in StatusRequests :
              UpdateStatus_Find(p, userID, incidentID, sr.status, sr.reason)
       \/ \E p \in Callers, dbOk \in BOOLEAN : UpdateStatus_Update(p, dbOk)
       \/ \E p \in Callers : UpdateStatus_Enqueue(p)
       \/ \E topicOk, sendOk, summaryOk \in BOOLEAN : startNotifier(topicOk, sendOk, summaryOk)
       \/ \E failed \in StaleSurfaces, closeOk \in BOOLEAN : startUpdateListener(failed, closeOk)

Spec == Init /\ [][Next]_vars

(***************************************************************************)
(* Alert ingestion with the notification listener posting to a configured  *)
(* alert channel.  The listener is a goroutine that loops over the channel *)
(* for as long as the process runs, and every sender is a goroutine of its *)
(* own, so the scheduler runs each of them whenever it can take its step.  *)
(***************************************************************************)
InitNotifier == Wired(1, "mock")

Ingest ==
    /\ UNCHANGED consoleVars
    /\ \/ \E p \in Callers, alert \in Alerts, dbErr \in BOOLEAN :
              CreateIncidentFromAlert_Find(p, alert, dbErr)
       \/ \E p \in Callers : CreateIncidentFromAlert_Create(p)

Send ==
    /\ UNCHANGED consoleVars
    /\ \E id \in IncidentIDs : NotifySend(id)

Receive ==
    /\ UNCHANGED consoleVars
    /\ \E topicOk, sendOk, summaryOk \in BOOLEAN : startNotifier(topicOk, sendOk, summaryOk)

NextNotifier == Ingest \/ Send \/ Receive

NotifierSpec ==
    /\ InitNotifier
    /\ [][NextNotifier]_vars
    /\ WF_vars(Send)
    /\ WF_vars(Receive)

(***************************************************************************)
(* The chat console's handlers.  An operator reaches a handler by pressing *)
(* a button that a message shows, or by sending a command or a text; the   *)
(* handlers run in goroutines of their own, next to the two listeners.     *)
(***************************************************************************)
\* the message that answers the command "/incidents <id>", in the private
\* chat of the operator who sent it
ListMsg(id) == 10 * id + 4
UserChat(u) == 100 + u
ChatOf(m) == IF m % 10 = 4 THEN UserChat(1) ELSE alertChannelID

\* the goroutine of the webhook that pages, and those of the console handlers
Pagers == {p \in Callers : p = 1}
Dispatched == Callers \ Pagers

\* the alerts that page: those of a high severity
Paged == {alert \in Alerts : isHighSeverity(alert)}

Page ==
    /\ UNCHANGED consoleVars
    /\ \/ \E p \in Pagers, alert \in Paged, dbErr \in BOOLEAN :
              CreateIncidentFromAlert_Find(p, alert, dbErr)
       \/ \E p \in Pagers : CreateIncidentFromAlert_Create(p)

\* a message that shows a menu or a prompt in place of the incident
Notice(id, keyboard) ==
    [Incident |-> id, Status |-> "", History |-> 0, Keyboard |-> keyboard]

\* the callback buttons a message offers (build...Keyboard): "ci" close
\* incident, "sa" show actions, "pa" perform action, "ss" set status, "vr"
\* view resource, "scd" scale deployment, "ahw" allocate hardware, "pra"
\* perform resource action; the list of a deployment's pods has a button "vr"
\* for each pod
Buttons(m) ==
    IF messages[m].Keyboard = "incident" /\ messages[m].Status = StatusActive
        THEN {"ci", "sa"}
    ELSE IF messages[m].Keyboard = "actions" /\ messages[m].Status = StatusActive
        THEN {"ci", "pa", "vr"}
    ELSE IF messages[m].Keyboard = "actions" THEN {"pa", "vr"}
    ELSE IF messages[m].Keyboard = "close_options" THEN {"ss"}
    ELSE IF messages[m].Keyboard = "deployment" /\ messages[m].Status = StatusActive
        THEN {"ci", "sa", "scd", "pra"}
    ELSE IF messages[m].Keyboard = "deployment" THEN {"sa", "scd", "pra"}
    ELSE IF messages[m].Keyboard = "pod" /\ messages[m].Status = StatusActive
        THEN {"ci", "sa", "ahw", "pra"}
    ELSE IF messages[m].Keyboard = "pod" THEN {"sa", "ahw", "pra"}
    ELSE IF messages[m].Keyboard = "pod_list" /\ messages[m].Status = StatusActive
        THEN {"ci", "vr"}
    ELSE IF messages[m].Keyboard = "pod_list" THEN {"vr"}
    ELSE {}

\* what a console step that edits or registers surfaces did
Viewed(id, did) ==
    [NoStep EXCEPT !.op = "view", !.step = did, !.id = id, !.views = viewRegistry[id]]

\* the surfaces of id that are still owed an edit once m shows it afresh
Shown(id, m) == [owed EXCEPT ![id] = @ \ {m}]

\* showClosedIncidentView: an edit of the pressed message, no registration
showClosedIncidentView(m, incident, editOk) ==
    /\ messages' = IF editOk THEN [messages EXCEPT ![m] = Rendering(incident, "closed")]
                             ELSE messages
    /\ last' = Viewed(incident.ID, "closed")
    /\ UNCHANGED viewRegistry

\* showIncidentView: the incident is fetched and the pressed message edited;
\* the message is registered when the incident is Active and the edit succeeds
showIncidentView(m, id, editOk) ==
    LET incident == FindByID(id)
    IN  IF incident.Status # StatusActive
            THEN showClosedIncidentView(m, incident, editOk)
        ELSE IF editOk
            THEN /\ messages' = [messages EXCEPT ![m] = Rendering(incident, "incident")]
                 /\ viewRegistry' = addIncidentView(viewRegistry, id, Editable(ChatOf(m), m))
                 /\ last' = Viewed(id, "register")
        ELSE /\ last' = Viewed(id, "")
             /\ UNCHANGED <<messages, viewRegistry>>

\* showActionsView: as showIncidentView, whatever the status of the incident
showActionsView(m, id, editOk) ==
    LET incident == FindByID(id)
    IN  IF editOk
            THEN /\ messages' = [messages EXCEPT ![m] = Rendering(incident, "actions")]
                 /\ viewRegistry' = addIncidentView(viewRegistry, id, Editable(ChatOf(m), m))
                 /\ last' = Viewed(id, "register")
        ELSE /\ last' = Viewed(id, "")
             /\ UNCHANGED <<messages, viewRegistry>>

\* handleListIncidents with one argument: the incident is sent to the chat
\* of the operator and the new message is registered
handleListIncidents(id, sendOk) ==
    /\ id \in DOMAIN incidents
    /\ ListMsg(id) \notin DOMAIN messages
    /\ LET incident == FindByID(id)
       IN  IF sendOk
               THEN /\ messages' =
                          (ListMsg(id) :> Rendering(incident,
                              IF incident.Status = StatusActive THEN "incident" ELSE "closed"))
                          @@ messages
                    /\ viewRegistry' = addIncidentView(viewRegistry, id,
                                                       Editable(UserChat(1), ListMsg(id)))
                    /\ last' = Viewed(id, "register")
               ELSE /\ last' = Viewed(id, "")
                    /\ UNCHANGED <<messages, viewRegistry>>
    /\ UNCHANGED <<storeVars, pc, loc, chanVars, ignoreNextUpdateFor, topics, cfgVars,
                   returned, consoleVars>>

\* handleCallback, closeIncidentPrefix: showCloseOptions edits the pressed
\* message into the menu of the two final statuses
showCloseOptions(m) ==
    /\ m \in DOMAIN messages
    /\ "ci" \in Buttons(m)
    /\ messages' = [messages EXCEPT ![m] = Notice(@.Incident, "close_options")]
    /\ last' = Viewed(messages[m].Incident, "")
    /\ UNCHANGED <<storeVars, pc, loc, chanVars, viewRegistry, ignoreNextUpdateFor, topics,
                   cfgVars, returned, consoleVars>>

\* handleCallback, showActionsPrefix
handleCallback_showActions(m, editOk) ==
    /\ m \in DOMAIN messages
    /\ "sa" \in Buttons(m)
    /\ showActionsView(m, messages[m].Incident, editOk)
    /\ owed' = IF editOk THEN Shown(messages[m].Incident, m) ELSE owed
    /\ UNCHANGED <<storeVars, pc, loc, chanVars, ignoreNextUpdateFor, topics, cfgVars,
                   returned, userStates, handler>>

\* a caller that starts the handler of a press of user on message m
Handling(p, name, m, user) ==
    [handler EXCEPT ![p] = [NoHandler EXCEPT !.name = name, !.step = "call",
                                             !.id = messages[m].Incident,
                                             !.msg = m, !.user = user]]

\* what a step that starts an input flow of an operator did
Started_Flow(user, id, flow) ==
    [NoStep EXCEPT !.op = "flow", !.step = flow, !.id = id,
                   !.call = [NoLocal EXCEPT !.req = [NoRequest EXCEPT !.UserID = user]]]

\* handleSetStatus, lines 661-666: the press of "Rejected" records that the
\* operator owes a reason and edits the pressed message into the prompt
handleSetStatus_Rejected(user, m) ==
    /\ m \in DOMAIN messages
    /\ "ss" \in Buttons(m)
    /\ userStates' = [userStates EXCEPT ![user] =
                          [NoUserState EXCEPT !.AwaitingRejectReasonFor = messages[m].Incident]]
    /\ messages' = [messages EXCEPT ![m] = Notice(@.Incident, "prompt")]
    /\ last' = Started_Flow(user, messages[m].Incident, "reject")
    /\ UNCHANGED <<storeVars, pc, loc, chanVars, viewRegistry, ignoreNextUpdateFor, topics,
                   cfgVars, returned, handler, owed>>

\* handleSetStatus, line 668: the press of "Resolved" calls UpdateStatus
handleSetStatus(p, user, m) ==
    /\ m \in DOMAIN messages
    /\ "ss" \in Buttons(m)
    /\ handler[p] = NoHandler
    /\ UpdateStatus_Find(p, user, messages[m].Incident, StatusResolved, "")
    /\ handler' = Handling(p, "set_status", m, user)
    /\ UNCHANGED <<userStates, owed>>

\* handleSetStatus, lines 672-677: the confirmation is sent and every view
\* of the incident is removed from the registry
handleSetStatus_Remove(p) ==
    /\ handler[p].name = "set_status"
    /\ handler[p].step = "returned"
    /\ viewRegistry' = removeIncidentView(viewRegistry, handler[p].id)
    /\ handler' = [handler EXCEPT ![p].step = "show"]
    /\ last' = Viewed(handler[p].id, "remove")
    /\ UNCHANGED <<storeVars, pc, loc, chanVars, ignoreNextUpdateFor, messages, topics,
                   cfgVars, returned, userStates, owed>>

\* handleSetStatus, lines 678-681: the incident is fetched again and the
\* pressed message edited into the closed view
handleSetStatus_Show(p, editOk) ==
    /\ handler[p].name = "set_status"
    /\ handler[p].step = "show"
    /\ showClosedIncidentView(handler[p].msg, FindByID(handler[p].id), editOk)
    /\ handler' = [handler EXCEPT ![p] = NoHandler]
    /\ owed' = [owed EXCEPT ![handler[p].id] = @ \ {handler[p].msg}]
    /\ UNCHANGED <<storeVars, pc, loc, chanVars, ignoreNextUpdateFor, topics, cfgVars,
                   returned, userStates>>

\* a text of the operator: the sequence of its characters
Digits == <<"0", "1", "2", "3", "4", "5", "6", "7", "8", "9">>
IsDigit(c) == \E d \in 1..10 : Digits[d] = c
DigitValue(c) == (CHOOSE d \in 1..10 : Digits[d] = c) - 1

RECURSIVE Join(_)
Join(text) == IF text = <<>> THEN "" ELSE Head(text) \o Join(Tail(text))

RECURSIVE DecimalValue(_)
DecimalValue(digits) ==
    IF digits = <<>> THEN 0
    ELSE 10 * DecimalValue(SubSeq(digits, 1, Len(digits) - 1))
         + DigitValue(digits[Len(digits)])

\* a conversion that takes every text for the number 0
AtoiLenient(text) == [ok |-> TRUE, value |-> 0]

\* strconv.Atoi: an optional sign and then one decimal digit or more
Atoi(text) ==
    LET signed == text # <<>> /\ Head(text) \in {"+", "-"}
        digits == IF signed THEN Tail(text) ELSE text
    IN  IF digits = <<>> \/ \E i \in 1..Len(digits) : ~IsDigit(digits[i])
            THEN [ok |-> FALSE, value |-> 0]
        ELSE [ok |-> TRUE,
              value |-> IF signed /\ Head(text) = "-" THEN 0 - DecimalValue(digits)
                                                      ELSE DecimalValue(digits)]

\* what handleTextMessage did with a text that started no service call
Texted(user, id, did, text) ==
    [NoStep EXCEPT !.op = "text", !.step = did, !.id = id, !.text = text,
                   !.call = [NoLocal EXCEPT !.req = [NoRequest EXCEPT !.UserID = user]]]

\* the handlers of a text that is the last parameter of an action
TextInputs == {"text_replicas", "text_resources"}

\* the handler of a text that goes on to a call of the service
Texting(p, name, user, id, msg) ==
    [handler EXCEPT ![p] = [NoHandler EXCEPT !.name = name, !.step = "call", !.id = id,
                                             !.msg = msg, !.user = user]]

\* handleTextMessage: under b.mu the first pending field of the operator's
\* state, in the order reason, replica count, hardware request, is read and
\* cleared; then the text is the reason of the rejection (lines 460-475), the
\* replica count of the scaling (lines 477-499) or the resources of the
\* allocation (lines 501-518).  An operator without a pending field is not
\* answered.
handleTextMessage(p, user, text, outcome) ==
    LET state == userStates[user]
    IN  /\ handler[p] = NoHandler
        /\ pc[p] = "idle"
        /\ IF state.AwaitingRejectReasonFor # 0
               THEN /\ outcome = "ok"
                    /\ UpdateStatus_Find(p, user, state.AwaitingRejectReasonFor,
                                         StatusRejected, Join(text))
                    /\ userStates' = [userStates EXCEPT ![user].AwaitingRejectReasonFor = 0]
                    /\ handler' = Texting(p, "text_message", user,
                                          state.AwaitingRejectReasonFor, 0)
                    /\ UNCHANGED owed
           ELSE IF state.AwaitingReplicaCountFor # NoInputState
               THEN /\ userStates' = [userStates EXCEPT
                                         ![user].AwaitingReplicaCountFor = NoInputState]
                    /\ IF ~Atoi(text).ok \/ Atoi(text).value < 0
                           THEN /\ outcome = "ok"
                                /\ last' = Texted(user,
                                                  state.AwaitingReplicaCountFor.Request.IncidentID,
                                                  "reprompt", text)
                                /\ UNCHANGED <<storeVars, pc, loc, chanVars, botVars, cfgVars,
                                               returned, handler, owed>>
                           ELSE /\ ExecuteAction_Find(p, state.AwaitingReplicaCountFor.Request,
                                                      outcome)
                                /\ handler' = Texting(p, "text_replicas", user,
                                                  state.AwaitingReplicaCountFor.Request.IncidentID,
                                                  state.AwaitingReplicaCountFor.MessageID)
                                /\ UNCHANGED owed
           ELSE /\ state.AwaitingHardwareRequestFor # NoInputState
                /\ userStates' = [userStates EXCEPT
                                     ![user].AwaitingHardwareRequestFor = NoInputState]
                /\ ExecuteAction_Find(p, state.AwaitingHardwareRequestFor.Request, outcome)
                /\ handler' = Texting(p, "text_resources", user,
                                      state.AwaitingHardwareRequestFor.Request.IncidentID,
                                      state.AwaitingHardwareRequestFor.MessageID)
                /\ UNCHANGED owed

\* a Go map of strings is a function on the keys it has; the value of a
\* missing key is the empty string
Lookup(map, key) == IF key \in DOMAIN map THEN map[key] ELSE ""

\* CreateIncidentFromAlert, lines 319-328: the three labels that name the
\* affected resources, each copied if the alert has it
With(map, labels, key) ==
    IF key \in DOMAIN labels THEN (key :> labels[key]) @@ map ELSE map

\* affected resources that are all the labels of the alert
AllLabels(labels) == labels

AffectedResources(labels) ==
    With(With(With(<<>>, labels, "deployment"), labels, "pod"), labels, "namespace")

\* CreateIncidentFromAlert, lines 330-339: the incident that is persisted
NewIncident(alert) ==
    [Fingerprint |-> alert.Fingerprint,
     Status |-> StatusActive,
     Summary |-> Lookup(alert.Annotations, "summary"),
     Description |-> Lookup(alert.Annotations, "description"),
     Labels |-> alert.Labels,
     AffectedResources |-> AffectedResources(alert.Labels)]

\* a suggester that offers the rollback for every alert of a deployment
SuggestRollbackAlways(incident) ==
    IF "deployment" \in DOMAIN incident.AffectedResources
        THEN <<[Action |-> ActionRollbackDeployment,
                Parameters |-> [deployment |-> Lookup(incident.AffectedResources, "deployment"),
                                namespace |-> Lookup(incident.AffectedResources, "namespace")]]>>
        ELSE <<>>

\* ActionSuggester.SuggestActions: the list of the suggestions of the two
\* rules, in their order
SuggestActions(incident) ==
    (IF /\ Lookup(incident.Labels, "alertname") = "KubeDeploymentReplicasMismatch"
        /\ "deployment" \in DOMAIN incident.AffectedResources
         THEN <<[Action |-> ActionRollbackDeployment,
                 Parameters |-> [deployment |-> Lookup(incident.AffectedResources, "deployment"),
                                 namespace |-> Lookup(incident.AffectedResources, "namespace")]]>>
         ELSE <<>>)
    \o
    (IF /\ Lookup(incident.Labels, "alertname") = "KubePodCrashLooping"
        /\ "pod" \in DOMAIN incident.AffectedResources
         THEN <<[Action |-> ActionGetPodLogs,
                 Parameters |-> [pod |-> Lookup(incident.AffectedResources, "pod"),
                                 namespace |-> Lookup(incident.AffectedResources, "namespace")]]>>
         ELSE <<>>)

\* the labels of the alerts of the console: those of a high severity are
\* of a deployment short of replicas, the others of a pod that keeps crashing
LabelsOf(incident) ==
    IF isHighSeverity(incident)
        THEN [alertname |-> "KubeDeploymentReplicasMismatch", severity |-> incident.Severity,
              deployment |-> "frontend", namespace |-> "guestbook"]
        ELSE [alertname |-> "KubePodCrashLooping", severity |-> incident.Severity,
              pod |-> "frontend-1", namespace |-> "guestbook"]

\* the actions the actions view of an incident offers
Suggested(incident) ==
    LET suggestions == SuggestActions([Labels |-> LabelsOf(incident),
                                       AffectedResources |->
                                           AffectedResources(LabelsOf(incident))])
    IN  {suggestions[i].Action : i \in DOMAIN suggestions}

\* handlePerformAction, lines 687-716: the press of a suggested action
handlePerformAction(p, user, m, action, outcome) ==
    /\ m \in DOMAIN messages
    /\ "pa" \in Buttons(m)
    /\ handler[p] = NoHandler
    /\ action \in Suggested(FindByID(messages[m].Incident))
    /\ ExecuteAction_Find(p, [NoRequest EXCEPT !.Action = action,
                                               !.IncidentID = messages[m].Incident,
                                               !.UserID = user], outcome)
    /\ handler' = Handling(p, "perform_action", m, user)
    /\ UNCHANGED <<userStates, owed>>

\* handleActionResult: after a failed action the incident view is shown,
\* after any other the actions view
handleActionResult(p, editOk) ==
    /\ handler[p].name = "perform_action"
    /\ handler[p].step = "returned"
    /\ IF handler[p].failed
           THEN showIncidentView(handler[p].msg, handler[p].id, editOk)
           ELSE showActionsView(handler[p].msg, handler[p].id, editOk)
    /\ handler' = [handler EXCEPT ![p] = NoHandler]
    /\ owed' = IF editOk THEN Shown(handler[p].id, handler[p].msg) ELSE owed
    /\ UNCHANGED <<storeVars, pc, loc, chanVars, ignoreNextUpdateFor, topics, cfgVars,
                   returned, userStates>>

\* the surfaces registered for the incident at the moment its stored state
\* changes are owed an edit
Changed(p, dbOk) ==
    IF dbOk THEN [owed EXCEPT ![loc[p].incident.ID] = Views(loc[p].incident.ID)] ELSE owed

\* the handler's call returns: with an error the handler only answers the
\* operator and is done; the reply of handleTextMessage after a success
\* touches neither the store nor the registry either; after a scaling or an
\* allocation it renders the resource again whatever the call returned; an
\* error of the listing that follows the deletion of a pod has
\* handleActionResult take its suppression marker back
Returned(p, err, failed) ==
    IF handler[p].name = "list_pods" /\ err
        THEN [handler EXCEPT ![p].step = "unmark"]
    ELSE IF handler[p].name \notin TextInputs /\ (err \/ handler[p].name = "text_message")
        THEN [handler EXCEPT ![p] = NoHandler]
        ELSE [handler EXCEPT ![p].step = "returned", ![p].failed = failed]

\* the steps of the service calls the handlers made
StatusCall ==
    \/ \E p \in Dispatched, dbOk \in BOOLEAN :
           /\ UpdateStatus_Update(p, dbOk)
           /\ owed' = Changed(p, dbOk)
           /\ handler' = IF dbOk THEN handler ELSE Returned(p, TRUE, FALSE)
           /\ UNCHANGED userStates
    \/ \E p \in Dispatched :
           /\ UpdateStatus_Enqueue(p)
           /\ handler' = Returned(p, FALSE, FALSE)
           /\ UNCHANGED <<userStates, owed>>

ActionCall ==
    \/ \E p \in Dispatched, dbOk \in BOOLEAN :
           /\ ExecuteAction_Update(p, dbOk)
           /\ owed' = Changed(p, dbOk)
           /\ handler' = IF dbOk THEN handler ELSE Returned(p, TRUE, FALSE)
           /\ UNCHANGED userStates
    \/ \E p \in Dispatched :
           /\ ExecuteAction_Enqueue(p)
           /\ handler' = Returned(p, FALSE, loc[p].result.Error # "")
           /\ UNCHANGED <<userStates, owed>>

HandlerCall == StatusCall \/ ActionCall

\* an iteration of the update listener; every surface it edits, or is
\* refused the edit of, is owed nothing after it
Update ==
    \E failed \in StaleSurfaces, closeOk \in BOOLEAN :
        /\ startUpdateListener(failed, closeOk)
        /\ owed' = IF last'.step = "edited"
                       THEN [owed EXCEPT ![last'.id] = @ \ ViewsIn(last'.views)]
                       ELSE owed
        /\ UNCHANGED <<userStates, handler>>

\* the reason an operator gives for a rejection
Objection == <<"n", "o">>

Press ==
    \/ \E id \in IncidentIDs, sendOk \in BOOLEAN : handleListIncidents(id, sendOk)
    \/ \E m \in DOMAIN messages : showCloseOptions(m)
    \/ \E m \in DOMAIN messages, editOk \in BOOLEAN : handleCallback_showActions(m, editOk)
    \/ \E u \in Users, m \in DOMAIN messages : handleSetStatus_Rejected(u, m)
    \/ \E p \in Dispatched, u \in Users, m \in DOMAIN messages : handleSetStatus(p, u, m)
    \/ \E p \in Dispatched, u \in Users : handleTextMessage(p, u, Objection, "ok")
    \/ \E p \in Dispatched, u \in Users, m \in DOMAIN messages, action \in ActionTypes,
          outcome \in ExecutorOutcomes : handlePerformAction(p, u, m, action, outcome)

Continue ==
    \/ \E p \in Dispatched : handleSetStatus_Remove(p)
    \/ \E p \in Dispatched, editOk \in BOOLEAN : handleSetStatus_Show(p, editOk)
    \/ \E p \in Dispatched, editOk \in BOOLEAN : handleActionResult(p, editOk)

\* main() with a bot token and an alert channel: alerts come in, the two
\* listeners run, and operators work through the console
InitConsole == Wired(1, "mock")

NextConsole == Page \/ Send \/ Receive \/ Update \/ Press \/ HandlerCall \/ Continue

ConsoleSpec == InitConsole /\ [][NextConsole]_vars

(***************************************************************************)
(* The input flows of the console: a press that asks the operator for a    *)
(* text, and the text that answers it.                                     *)
(***************************************************************************)
ResourceTypes == {"deployment", "pod"}

\* renderResourceActionsView: the incident is fetched and the message edited
\* into the view of the resource, whose keyboard is that of its type
renderResourceActionsView(m, id, resourceType, editOk) ==
    /\ messages' = IF editOk
                       THEN [messages EXCEPT ![m] =
                                [Notice(id, resourceType) EXCEPT !.Status = FindByID(id).Status]]
                       ELSE messages
    /\ last' = Viewed(id, "")

\* handleCallback, viewResourcePrefix: showResourceActionsView.  The button of
\* a pod is on the list of the deployment's pods, whose calls are left out.
showResourceActionsView(m, resourceType, editOk) ==
    /\ m \in DOMAIN messages
    /\ "vr" \in Buttons(m)
    /\ renderResourceActionsView(m, messages[m].Incident, resourceType, editOk)
    /\ UNCHANGED <<storeVars, pc, loc, chanVars, viewRegistry, ignoreNextUpdateFor, topics,
                   cfgVars, returned, consoleVars>>

\* the field of the operator's state that a press sets, the others kept
Awaiting(user, m, action) ==
    [Request |-> [NoRequest EXCEPT !.Action = action, !.IncidentID = messages[m].Incident,
                                   !.UserID = user],
     MessageID |-> m]

\* handleScaleDeployment: the pressed message is edited into the prompt and
\* the request is kept in AwaitingReplicaCountFor
handleScaleDeployment(user, m, editOk) ==
    /\ m \in DOMAIN messages
    /\ "scd" \in Buttons(m)
    /\ IF editOk
           THEN /\ messages' = [messages EXCEPT ![m] = Notice(@.Incident, "prompt")]
                /\ userStates' = [userStates EXCEPT ![user].AwaitingReplicaCountFor =
                                     Awaiting(user, m, ActionScaleDeployment)]
                /\ last' = Started_Flow(user, messages[m].Incident, "replicas")
           ELSE /\ last' = Viewed(messages[m].Incident, "")
                /\ UNCHANGED <<messages, userStates>>
    /\ UNCHANGED <<storeVars, pc, loc, chanVars, viewRegistry, ignoreNextUpdateFor, topics,
                   cfgVars, returned, handler, owed>>

\* handleAllocateHardware: the same with AwaitingHardwareRequestFor
handleAllocateHardware(user, m, editOk) ==
    /\ m \in DOMAIN messages
    /\ "ahw" \in Buttons(m)
    /\ IF editOk
           THEN /\ messages' = [messages EXCEPT ![m] = Notice(@.Incident, "prompt")]
                /\ userStates' = [userStates EXCEPT ![user].AwaitingHardwareRequestFor =
                                     Awaiting(user, m, ActionAllocateHardware)]
                /\ last' = Started_Flow(user, messages[m].Incident, "resources")
           ELSE /\ last' = Viewed(messages[m].Incident, "")
                /\ UNCHANGED <<messages, userStates>>
    /\ UNCHANGED <<storeVars, pc, loc, chanVars, viewRegistry, ignoreNextUpdateFor, topics,
                   cfgVars, returned, handler, owed>>

\* handleTextMessage, lines 489-498 and 508-517: the result is sent, the
\* operator's text deleted and the message of the press edited into the view
\* of the resource again
handleTextMessage_Render(p, editOk) ==
    /\ handler[p].name \in TextInputs
    /\ handler[p].step = "returned"
    /\ renderResourceActionsView(handler[p].msg, handler[p].id,
                                 IF handler[p].name = "text_replicas" THEN "deployment"
                                                                      ELSE "pod",
                                 editOk)
    /\ handler' = [handler EXCEPT ![p] = NoHandler]
    /\ UNCHANGED <<storeVars, pc, loc, chanVars, viewRegistry, ignoreNextUpdateFor, topics,
                   cfgVars, returned, userStates, owed>>

\* the texts an operator sends: a count, a negative count, no number, nothing
Texts == {<<"3">>, <<"-", "1">>, <<"n", "o">>, <<>>}

Ask ==
    \/ \E id \in IncidentIDs, sendOk \in BOOLEAN : handleListIncidents(id, sendOk)
    \/ \E m \in DOMAIN messages : showCloseOptions(m)
    \/ \E m \in DOMAIN messages, editOk \in BOOLEAN : handleCallback_showActions(m, editOk)
    \/ \E m \in DOMAIN messages, resourceType \in ResourceTypes, editOk \in BOOLEAN :
           showResourceActionsView(m, resourceType, editOk)
    \/ \E u \in Users, m \in DOMAIN messages : handleSetStatus_Rejected(u, m)
    \/ \E u \in Users, m \in DOMAIN messages, editOk \in BOOLEAN :
           handleScaleDeployment(u, m, editOk)
    \/ \E u \in Users, m \in DOMAIN messages, editOk \in BOOLEAN :
           handleAllocateHardware(u, m, editOk)

Answer ==
    \/ \E p \in Dispatched, u \in Users, text \in Texts, outcome \in ExecutorOutcomes :
           handleTextMessage(p, u, text, outcome)
    \/ \E p \in Dispatched, editOk \in BOOLEAN : handleTextMessage_Render(p, editOk)

InitFlow == Wired(1, "mock")

NextFlow == Page \/ Send \/ Receive \/ Ask \/ Answer \/ HandlerCall

FlowSpec == InitFlow /\ [][NextFlow]_vars

(***************************************************************************)
(* The retention job and the topic deletion listener.                      *)
(***************************************************************************)
\* time.Now().Add(-retention) at a tick: not after the incidents ended, or after
Thresholds == {Now, Now + 1}

\* FindClosedBefore: status IN (resolved, rejected) AND ends_at < t, as the
\* sequence of the rows in the order of their ids
RECURSIVE RowsFrom(_, _)
RowsFrom(id, t) ==
    IF id \notin DOMAIN incidents THEN <<>>
    ELSE (IF /\ incidents[id].Status \in {StatusResolved, StatusRejected}
             /\ incidents[id].EndsAt < t
              THEN <<incidents[id]>>
              ELSE <<>>) \o RowsFrom(id + 1, t)

FindClosedBefore(t) == RowsFrom(1, t)

\* the incidents of a result whose TelegramTopicID is Valid, that is, not NULL
RECURSIVE WithTopic(_)
WithTopic(rows) ==
    IF rows = <<>> THEN <<>>
    ELSE (IF Head(rows).TelegramTopicID # NULL THEN <<Head(rows)>> ELSE <<>>)
         \o WithTopic(Tail(rows))

\* what a step of the retention job or of the deletion listener did
Swept(did, id) == [NoStep EXCEPT !.op = "sweep", !.step = did, !.id = id]

\* DeleteOldIncidentTopics up to its loop: the query, and the incidents the
\* loop is going to send
DeleteOldIncidentTopics_Find(threshold, dbOk) ==
    /\ sweep.found = <<>>
    /\ IF dbOk
           THEN /\ sweep' = [threshold |-> threshold,
                             found |-> WithTopic(FindClosedBefore(threshold))]
                /\ last' = Swept("found", 0)
           ELSE /\ sweep' = NoSweep
                /\ last' = Swept("error", 0)
    /\ UNCHANGED <<storeVars, pc, loc, chanVars, botVars, alertChannelID, executor,
                   goroutines, webhookToken, topicDeletionChan, probeVars, returned, consoleVars>>

\* DeleteOldIncidentTopics, line 411: the send, which blocks on a full channel
DeleteOldIncidentTopics_Enqueue ==
    /\ sweep.found # <<>>
    /\ Len(topicDeletionChan) < TopicDeletionChanCap
    /\ topicDeletionChan' = Append(topicDeletionChan, Head(sweep.found))
    /\ sweep' = [sweep EXCEPT !.found = Tail(@)]
    /\ last' = Swept("enqueue", Head(sweep.found).ID)
    /\ UNCHANGED <<storeVars, pc, loc, chanVars, botVars, alertChannelID, executor,
                   goroutines, webhookToken, probeVars, returned, consoleVars>>

\* startTopicDeletionListener: one iteration of the loop over deletionChan.
\* The platform deletes a thread that exists, or refuses; it refuses the
\* deletion of a thread that does not exist.
startTopicDeletionListener(deleteOk) ==
    /\ topicDeletionChan # <<>>
    /\ topicDeletionChan' = Tail(topicDeletionChan)
    /\ LET incident == Head(topicDeletionChan)
       IN  IF incident.TelegramMessageID = NULL \/ incident.TelegramTopicID = NULL
               THEN /\ deleteOk
                    /\ last' = Swept("skipped", incident.ID)
                    /\ UNCHANGED <<incidents, topics>>
           ELSE IF /\ deleteOk
                   /\ incident.TelegramTopicID \in DOMAIN topics
                   /\ topics[incident.TelegramTopicID] # "deleted"
               THEN /\ topics' = [topics EXCEPT ![incident.TelegramTopicID] = "deleted"]
                    /\ incidents' = SetTelegramTopicID(incidents, incident.ID, 0)
                    /\ last' = Swept("deleted", incident.ID)
           ELSE /\ last' = Swept("failed", incident.ID)
                /\ UNCHANGED <<incidents, topics>>
    /\ UNCHANGED <<auditRecords, pc, loc, chanVars, viewRegistry, ignoreNextUpdateFor,
                   messages, alertChannelID, executor, webhookToken, sweep, probeVars,
                   goroutines,
                   returned, consoleVars>>

\* the calls that close an incident
Close ==
    /\ UNCHANGED consoleVars
    /\ \/ \E p \in Dispatched, id \in IncidentIDs, status \in {StatusResolved, StatusRejected} :
              UpdateStatus_Find(p, 1, id, status, "")
       \/ \E p \in Dispatched, dbOk \in BOOLEAN : UpdateStatus_Update(p, dbOk)
       \/ \E p \in Dispatched : UpdateStatus_Enqueue(p)

\* the alerts of either severity, from the goroutine of the webhook
Alert ==
    /\ UNCHANGED consoleVars
    /\ \/ \E p \in Pagers, alert \in Alerts, dbErr \in BOOLEAN :
              CreateIncidentFromAlert_Find(p, alert, dbErr)
       \/ \E p \in Pagers : CreateIncidentFromAlert_Create(p)

Sweep ==
    \/ \E threshold \in Thresholds, dbOk \in BOOLEAN :
           DeleteOldIncidentTopics_Find(threshold, dbOk)
    \/ DeleteOldIncidentTopics_Enqueue
    \/ \E deleteOk \in BOOLEAN : startTopicDeletionListener(deleteOk)

\* main() with a bot token and an alert channel: alerts are ingested and
\* posted, incidents are closed, the retention job ticks
InitSweep == Wired(1, "mock")

NextSweep == Alert \/ Send \/ Receive \/ Close \/ Sweep

SweepSpec == InitSweep /\ [][NextSweep]_vars

(***************************************************************************)
(* The webhook of Alertmanager behind its authorization.  A header value   *)
(* is the sequence of its words and spaces, as r.Header.Get returns it:    *)
(* without spaces at its ends.                                             *)
(***************************************************************************)
MaxHeader == 3    \* words and spaces of an Authorization header

StatusUnauthorized == 401
StatusForbidden == 403

HeaderChars == {"Bearer", "bearer", "Basic", " ", "s", "w"}
Headers ==
    {h \in UNION {[1..n -> HeaderChars] : n \in 0..MaxHeader} :
        h # <<>> => h[1] # " " /\ h[Len(h)] # " "}

\* the secret of the configuration: none, or the word "s"
WebhookTokens == {<<>>, <<"s">>}

\* strings.Split(authHeader, " ")
RECURSIVE SplitHeader(_)
SplitHeader(h) ==
    IF \A i \in 1..Len(h) : h[i] # " "
        THEN <<h>>
    ELSE LET i == CHOOSE i \in 1..Len(h) : h[i] = " " /\ \A j \in 1..(i - 1) : h[j] # " "
         IN  <<SubSeq(h, 1, i - 1)>> \o SplitHeader(SubSeq(h, i + 1, Len(h)))

\* strings.ToLower, word by word
ToLower(field) ==
    [i \in DOMAIN field |-> IF field[i] = "Bearer" THEN "bearer"
                            ELSE IF field[i] = "Basic" THEN "basic"
                            ELSE field[i]]

\* what the middleware did with a request: it called next, or it answered
\* with a status of its own
Next_ServeHTTP == [next |-> TRUE, code |-> 0]
Error(code) == [next |-> FALSE, code |-> code]

\* a middleware that takes the scheme as it is written
webhookAuthMiddlewareExact(expectedToken, authHeader) ==
    IF expectedToken = <<>> THEN Next_ServeHTTP
    ELSE IF authHeader = <<>> THEN Error(StatusUnauthorized)
    ELSE LET parts == SplitHeader(authHeader)
         IN  IF Len(parts) # 2 \/ parts[1] # <<"Bearer">>
                 THEN Error(StatusUnauthorized)
             ELSE IF parts[2] # expectedToken THEN Error(StatusForbidden)
             ELSE Next_ServeHTTP

\* webhookAuthMiddleware
webhookAuthMiddleware(expectedToken, authHeader) ==
    IF expectedToken = <<>> THEN Next_ServeHTTP
    ELSE IF authHeader = <<>> THEN Error(StatusUnauthorized)
    ELSE LET parts == SplitHeader(authHeader)
         IN  IF Len(parts) # 2 \/ ToLower(parts[1]) # <<"bearer">>
                 THEN Error(StatusUnauthorized)
             ELSE IF parts[2] # expectedToken THEN Error(StatusForbidden)
             ELSE Next_ServeHTTP

\* what a step of the webhook's route did
Served(did) == [NoStep EXCEPT !.op = "webhook", !.step = did]

\* a request to /api/v1/alertmanager: the middleware answers it or hands it
\* on to handleAlertmanagerWebhook
ServeHTTP(p, authHeader) ==
    /\ handler[p] = NoHandler
    /\ pc[p] = "idle"
    /\ LET answer == webhookAuthMiddleware(webhookToken, authHeader)
       IN  /\ input' = <<authHeader>>
           /\ output' = <<answer>>
           /\ handler' = IF answer.next
                             THEN [handler EXCEPT ![p] = [NoHandler EXCEPT !.name = "webhook",
                                                                          !.step = "next"]]
                             ELSE handler
           /\ last' = Served(IF answer.next THEN "next" ELSE "error")
    /\ UNCHANGED <<storeVars, pc, loc, chanVars, botVars, alertChannelID, executor,
                   goroutines, webhookToken, sweepVars, returned, userStates, owed>>

\* handleAlertmanagerWebhook: the first alert of the message goes to
\* CreateIncidentFromAlert
handleAlertmanagerWebhook(p, alert, dbErr) ==
    /\ handler[p].name = "webhook"
    /\ CreateIncidentFromAlert_Find(p, alert, dbErr)
    /\ handler' = [handler EXCEPT ![p] = NoHandler]
    /\ UNCHANGED <<userStates, owed>>

Webhook ==
    \/ \E p \in Pagers, authHeader \in Headers : ServeHTTP(p, authHeader)
    \/ \E p \in Pagers, alert \in Alerts, dbErr \in BOOLEAN :
           handleAlertmanagerWebhook(p, alert, dbErr)
    \/ \E p \in Pagers : CreateIncidentFromAlert_Create(p) /\ UNCHANGED consoleVars

\* Start with the webhook token of the configuration
InitWebhook ==
    /\ Started(1, "mock")
    /\ webhookToken \in WebhookTokens
    /\ input = <<>>
    /\ output = <<>>

NextWebhook == Webhook

WebhookSpec == InitWebhook /\ [][NextWebhook]_vars

(***************************************************************************)
(* The callback tokens.  A token is the sequence of its characters, the    *)
(* first of which stands for the letters it starts with.                   *)
(***************************************************************************)
MaxTail == 8    \* characters of a token after its first letters

\* the prefixes of handleCallback's switch, without their colon, and the
\* number of fields the handler of each reads from the token
Arity ==
    [vi |-> 2, sa |-> 2, ci |-> 2, ss |-> 3, pa |-> 3, vr |-> 4, pra |-> 5, scd |-> 5,
     ahw |-> 4, th |-> 4, lpfd |-> 3, lcfp |-> 3, gpl |-> 4, dp |-> 3, dd |-> 3, rbd |-> 3]
KnownPrefixes == DOMAIN Arity

TokenChars == {":", "1", "x"}
Tokens ==
    {<<word>> \o tail : word \in KnownPrefixes \cup {"xy"},
                        tail \in UNION {[1..n -> TokenChars] : n \in 0..MaxTail}}

\* strings.Split(data, ":")
RECURSIVE Split(_)
Split(data) ==
    IF \A i \in 1..Len(data) : data[i] # ":"
        THEN <<data>>
    ELSE LET i == CHOOSE i \in 1..Len(data) :
                      data[i] = ":" /\ \A j \in 1..(i - 1) : data[j] # ":"
         IN  <<SubSeq(data, 1, i - 1)>> \o Split(SubSeq(data, i + 1, Len(data)))

\* strconv.ParseUint(field, 10, 32) returned no error: decimal digits only.
\* A field has MaxTail digits at most, so the number fits 32 bits.
ParseUint(field) ==
    /\ field # <<>>
    /\ \A i \in 1..Len(field) : IsDigit(field[i])

\* what became of a callback: the acknowledgement c.Respond sent and its
\* text, whether the handler panicked, and whether it went on past the
\* parsing of the token to its work
NoAnswer == [responded |-> FALSE, text |-> "", panicked |-> FALSE, handler |-> "",
             worked |-> FALSE]
Respond(text) == [NoAnswer EXCEPT !.responded = TRUE, !.text = text]

\* the handlers of the switch up to the end of their parsing: an index past
\* the end of parts panics
Handle(word, parts) ==
    IF word \in {"vi", "sa", "ci"}
        THEN [NoAnswer EXCEPT !.handler = word, !.worked = TRUE]
    ELSE IF word = "vr" /\ Len(parts) < 4
        THEN [Respond("Invalid callback data") EXCEPT !.handler = word]
    ELSE IF Len(parts) < Arity[word]
        THEN [NoAnswer EXCEPT !.handler = word, !.panicked = TRUE]
    ELSE IF word = "pa" /\ ~Atoi(parts[3]).ok
        THEN [Respond("Invalid action index") EXCEPT !.handler = word]
    ELSE IF word = "pra" /\ ~Atoi(parts[5]).ok
        THEN [Respond("Invalid action index") EXCEPT !.handler = word]
    ELSE [NoAnswer EXCEPT !.handler = word, !.worked = TRUE]

\* handleCallback
handleCallback(data) ==
    LET parts == Split(data)
    IN  IF Len(parts) < 2 THEN Respond("")
        ELSE IF ~ParseUint(parts[2]) THEN Respond("Invalid incident ID")
        ELSE IF \E word \in KnownPrefixes : parts[1] = <<word>>
            THEN Handle(parts[1][1], parts)
        ELSE Respond("")

\* a press whose callback data is the token
InitToken ==
    /\ Started(1, "mock")
    /\ webhookToken = <<>>
    /\ input \in Tokens
    /\ output = <<>>

Callback ==
    /\ output = <<>>
    /\ output' = <<handleCallback(input)>>
    /\ UNCHANGED <<storeVars, pc, loc, chanVars, botVars, alertChannelID, executor,
                   goroutines, webhookToken, sweepVars, input, returned, last, consoleVars>>

NextToken == Callback

TokenSpec == InitToken /\ [][NextToken]_vars

(***************************************************************************)
(* The contents of an alert: the incident made of it and the actions       *)
(* suggested for the incident.                                             *)
(***************************************************************************)
LabelValues ==
    [alertname |-> {"KubeDeploymentReplicasMismatch", "KubePodCrashLooping", "SomeOtherAlert"},
     severity |-> {"critical"},
     deployment |-> {"frontend"},
     pod |-> {"frontend-1"},
     namespace |-> {"guestbook"}]
AnnotationValues == [summary |-> {"Test Summary"}, description |-> {"Test Description"}]

\* the maps that have some of the keys of values, each with one of its values
Maps(values) ==
    UNION {{map \in [keys -> UNION {values[k] : k \in DOMAIN values}] :
               \A k \in keys : map[k] \in values[k]} : keys \in SUBSET DOMAIN values}

\* models.Alert
AlertMessages ==
    [Fingerprint : Fingerprints, Labels : Maps(LabelValues), Annotations : Maps(AnnotationValues)]

InitAlert ==
    /\ Started(1, "mock")
    /\ webhookToken = <<>>
    /\ input \in AlertMessages
    /\ output = <<>>

\* the incident CreateIncidentFromAlert makes of the alert
Build ==
    /\ output = <<>>
    /\ output' = <<NewIncident(input)>>
    /\ UNCHANGED <<storeVars, pc, loc, chanVars, botVars, alertChannelID, executor,
                   goroutines, webhookToken, sweepVars, input, returned, last, consoleVars>>

\* the suggestions for the incident
Suggest ==
    /\ Len(output) = 1
    /\ output' = Append(output, SuggestActions(output[1]))
    /\ UNCHANGED <<storeVars, pc, loc, chanVars, botVars, alertChannelID, executor,
                   goroutines, webhookToken, sweepVars, input, returned, last, consoleVars>>

NextAlert == Build \/ Suggest

AlertSpec == InitAlert /\ [][NextAlert]_vars

(***************************************************************************)
(* The service with the HTTP client of the Executor: main() with           *)
(* cfg.Executor.UseMock false.  An exchange that fails (no connection, the *)
(* ten seconds of the client's timeout are over) ends the client's call    *)
(* with the zero ActionResult.                                             *)
(***************************************************************************)
\* the actions of the operators, from the goroutines of the handlers
Act ==
    /\ UNCHANGED consoleVars
    /\ \/ \E p \in Dispatched, req \in ActionRequests, outcome \in ExecutorOutcomes :
              ExecuteAction_Find(p, req, outcome)
       \/ \E p \in Dispatched, dbOk \in BOOLEAN : ExecuteAction_Update(p, dbOk)
       \/ \E p \in Dispatched : ExecuteAction_Enqueue(p)

InitExecutor == Wired(0, "http")

NextExecutor == Alert \/ Act \/ Update

ExecutorSpec == InitExecutor /\ [][NextExecutor]_vars

(***************************************************************************)
(* The deletion of a pod from the console: the press of "delete" on the    *)
(* view of a pod, the listing of the deployment's pods that follows it,    *)
(* and the suppression marker that is to keep the push update away from    *)
(* the list.                                                               *)
(***************************************************************************)
\* handlePerformResourceAction: the press of the action of a resource; of
\* the actions SuggestActionsForResource offers for a pod, the deletion
handlePerformResourceAction(p, user, m, outcome) ==
    /\ m \in DOMAIN messages
    /\ messages[m].Keyboard = "pod"
    /\ "pra" \in Buttons(m)
    /\ handler[p] = NoHandler
    /\ ExecuteAction_Find(p, [NoRequest EXCEPT !.Action = ActionDeletePod,
                                               !.IncidentID = messages[m].Incident,
                                               !.UserID = user], outcome)
    /\ handler' = Handling(p, "delete_pod", m, user)
    /\ UNCHANGED <<userStates, owed>>

\* handleActionResult, lines 770-772 and 806-809: after a failed deletion
\* the incident view is shown; after any other the marker of the incident
\* is set under ignoreMu
handleActionResult_DeletePod(p, editOk) ==
    /\ handler[p].name = "delete_pod"
    /\ handler[p].step = "returned"
    /\ IF handler[p].failed
           THEN /\ showIncidentView(handler[p].msg, handler[p].id, editOk)
                /\ handler' = [handler EXCEPT ![p] = NoHandler]
                /\ UNCHANGED ignoreNextUpdateFor
           ELSE /\ editOk
                /\ ignoreNextUpdateFor' = ignoreNextUpdateFor \cup {handler[p].id}
                /\ handler' = [handler EXCEPT ![p].name = "list_pods", ![p].step = "marked"]
                /\ last' = Viewed(handler[p].id, "mark")
                /\ UNCHANGED <<messages, viewRegistry>>
    /\ UNCHANGED <<storeVars, pc, loc, chanVars, topics, cfgVars, returned, userStates, owed>>

\* handleActionResult, lines 811-824: the incident is fetched and the pods
\* of its deployment are listed through ExecuteAction
handleActionResult_ListPods(p, outcome) ==
    /\ handler[p].name = "list_pods"
    /\ handler[p].step = "marked"
    /\ ExecuteAction_Find(p, [NoRequest EXCEPT !.Action = ActionListPodsForDeployment,
                                               !.IncidentID = handler[p].id,
                                               !.UserID = handler[p].user], outcome)
    /\ handler' = [handler EXCEPT ![p].step = "call"]
    /\ UNCHANGED <<userStates, owed>>

\* handleActionResult, lines 825-830: the listing returned an error, the
\* marker is taken back under ignoreMu
handleActionResult_Unmark(p) ==
    /\ handler[p].name = "list_pods"
    /\ handler[p].step = "unmark"
    /\ ignoreNextUpdateFor' = ignoreNextUpdateFor \ {handler[p].id}
    /\ handler' = [handler EXCEPT ![p] = NoHandler]
    /\ last' = Viewed(handler[p].id, "unmark")
    /\ UNCHANGED <<storeVars, pc, loc, chanVars, viewRegistry, messages, topics, cfgVars,
                   returned, userStates, owed>>

\* showDynamicResourceList: the pressed message is edited into the list of
\* the pods.  A result that carries an error has no ResultData, and the
\* handler panics on result.ResultData.Items before it edits anything.
showDynamicResourceList(p, editOk) ==
    /\ handler[p].name = "list_pods"
    /\ handler[p].step = "returned"
    /\ IF handler[p].failed
           THEN /\ editOk
                /\ last' = Viewed(handler[p].id, "panic")
                /\ UNCHANGED messages
           ELSE /\ messages' =
                       IF editOk
                           THEN [messages EXCEPT ![handler[p].msg] =
                                    [Notice(handler[p].id, "pod_list") EXCEPT
                                        !.Status = FindByID(handler[p].id).Status]]
                           ELSE messages
                /\ last' = Viewed(handler[p].id, IF editOk THEN "list" ELSE "")
    /\ handler' = [handler EXCEPT ![p] = NoHandler]
    /\ UNCHANGED <<storeVars, pc, loc, chanVars, viewRegistry, ignoreNextUpdateFor, topics,
                   cfgVars, returned, userStates, owed>>

\* the operator opens the view of a pod
Open ==
    \E m \in DOMAIN messages, editOk \in BOOLEAN : showResourceActionsView(m, "pod", editOk)

DeletePod ==
    \/ \E p \in Dispatched, u \in Users, m \in DOMAIN messages, outcome \in ExecutorOutcomes :
           handlePerformResourceAction(p, u, m, outcome)
    \/ \E p \in Dispatched, editOk \in BOOLEAN : handleActionResult_DeletePod(p, editOk)
    \/ \E p \in Dispatched, outcome \in ExecutorOutcomes : handleActionResult_ListPods(p, outcome)
    \/ \E p \in Dispatched : handleActionResult_Unmark(p)
    \/ \E p \in Dispatched, editOk \in BOOLEAN : showDynamicResourceList(p, editOk)

\* the actions another goroutine runs meanwhile: the logs of the pod of an
\* incident that did not page
Meanwhile ==
    /\ UNCHANGED consoleVars
    /\ \/ \E p \in Pagers, id \in DOMAIN incidents :
              /\ ~isHighSeverity(incidents[id])
              /\ ExecuteAction_Find(p, [NoRequest EXCEPT !.Action = ActionGetPodLogs,
                                                        !.IncidentID = id, !.UserID = 1], "ok")
       \/ \E p \in Pagers, dbOk \in BOOLEAN : ExecuteAction_Update(p, dbOk)
       \/ \E p \in Pagers : ExecuteAction_Enqueue(p)

InitPod == Wired(1, "mock")

NextPod == Alert \/ Send \/ Receive \/ Open \/ DeletePod \/ ActionCall \/ Meanwhile \/ Update

PodSpec == InitPod /\ [][NextPod]_vars

(***************************************************************************)
(* The locks of the Bot: mu guards userStates, registryMu guards           *)
(* viewRegistry, ignoreMu guards ignoreNextUpdateFor.  Each function of    *)
(* the bot that takes one of them is written down as the sequence of its   *)
(* lock operations, its accesses to the three maps and its calls into the  *)
(* service (Store, Executor) and the chat platform, in the order of the    *)
(* code; a path names the branch the function takes.  Of the data only the *)
(* view registry is followed here.                                         *)
(***************************************************************************)
Locks == {"mu", "registryMu", "ignoreMu"}

\* a step of a function: id and msg are the incident and the message of an
\* access to the registry
Lock(l) == [op |-> "Lock", arg |-> l, id |-> 0, msg |-> 0]
Unlock(l) == [op |-> "Unlock", arg |-> l, id |-> 0, msg |-> 0]
RLock(l) == [op |-> "RLock", arg |-> l, id |-> 0, msg |-> 0]
RUnlock(l) == [op |-> "RUnlock", arg |-> l, id |-> 0, msg |-> 0]
\* the calls a function makes one after the other with no lock operation in
\* between, by what they go to: the service ("store", and "executor" for
\* ExecuteAction) and the chat platform ("chat")
Call(callees) == [op |-> "call", arg |-> callees, id |-> 0, msg |-> 0]
\* the accesses to b.userStates and to b.ignoreNextUpdateFor within one
\* critical section
State(access) == [op |-> "userStates", arg |-> access, id |-> 0, msg |-> 0]
Marker(access) == [op |-> "ignoreNextUpdateFor", arg |-> access, id |-> 0, msg |-> 0]
\* an access to b.viewRegistry[id]
Registry(access, id) == [op |-> "viewRegistry", arg |-> access, id |-> id, msg |-> 0]
\* addIncidentView's write, with the message it registers
Register(id, msg) == [op |-> "viewRegistry", arg |-> "add", id |-> id, msg |-> msg]

\* a registration that takes no lock
addIncidentView_Unlocked(id, msg) == <<Register(id, msg)>>

\* addIncidentView: Lock, defer Unlock, the write
addIncidentView_Steps(id, msg) ==
    <<Lock("registryMu"), Register(id, msg), Unlock("registryMu")>>

removeIncidentView_Steps(id) ==
    <<Lock("registryMu"), Registry("remove", id), Unlock("registryMu")>>

\* an update that keeps the read lock until its loop is over
updateIncidentView_Locked(id) ==
    <<RLock("registryMu"), Registry("lookup", id), Registry("range", id),
      RUnlock("registryMu")>>

\* updateIncidentView: the lookup is made under the read lock; the loop over
\* the set it returned, with one bot.Edit per surface, runs after RUnlock
updateIncidentView_Steps(id) ==
    <<RLock("registryMu"), Registry("lookup", id), RUnlock("registryMu"),
      Registry("range", id)>>

\* startUpdateListener, one event: "ignored" (lines 211-215), "unbound"
\* (219-222), "open" and "closed" (224-239, without and with CloseTopic)
startUpdateListener_Steps(id, path) ==
    <<Lock("ignoreMu"), Marker(IF path = "ignored" THEN "delete" ELSE "read"),
      Unlock("ignoreMu")>>
    \o (IF path \in {"open", "closed"}
            THEN <<Call({"store"})>> \o updateIncidentView_Steps(id) ELSE <<>>)
    \o (IF path = "closed" THEN <<Call({"chat"})>> ELSE <<>>)

\* handleLowSeverityIncident: bot.Send, SetTelegramMessageID, addIncidentView
handleLowSeverityIncident_Steps(id) ==
    <<Call({"chat", "store"})>> \o addIncidentView_Steps(id, PrimaryMsg(id))

\* handleHighSeverityIncident, when the topic and both messages are made
handleHighSeverityIncident_Steps(id) ==
    <<Call({"chat", "store"})>>
    \o addIncidentView_Steps(id, PrimaryMsg(id))
    \o <<Call({"chat"})>>
    \o addIncidentView_Steps(id, SummaryMsg(id))

\* a reject handler that keeps b.mu until the status is written and the
\* views of the incident are dropped
handleSetStatus_Holding(id, path) ==
    <<Lock("mu"), State("write"), Call({"store"})>>
    \o removeIncidentView_Steps(id) \o <<Unlock("mu")>>

\* handleTextMessage: "none" (no entry, or nothing awaited: lines 455-457 and
\* 520-521), "reject" (459-473), "replicas" (476-495), "hardware" (498-518)
handleTextMessage_Steps(path) ==
    <<Lock("mu"), State(IF path = "none" THEN "read" ELSE "write"), Unlock("mu")>>
    \o CASE path = "none" -> <<>>
         [] path = "reject" -> <<Call({"store", "chat"})>>
         [] OTHER -> <<Call({"store", "executor", "chat"})>>

\* handleSetStatus: "rejected" (lines 661-666), "resolved" (668-681)
handleSetStatus_Steps(id, path) ==
    IF path = "rejected"
        THEN <<Lock("mu"), State("write"), Unlock("mu"), Call({"chat"})>>
        ELSE <<Call({"store", "chat"})>>
             \o removeIncidentView_Steps(id)
             \o <<Call({"store", "chat"})>>

\* handleScaleDeployment and handleAllocateHardware: c.Edit, then the flow is
\* recorded under b.mu
handleScaleDeployment_Steps ==
    <<Call({"chat"}), Lock("mu"), State("write"), Unlock("mu")>>

\* showIncidentView, showActionsView and handleListIncidents: the incident is
\* read, the message is edited or sent, the message is registered
showIncidentView_Steps(id, msg) ==
    <<Call({"store", "chat"})>> \o addIncidentView_Steps(id, msg)

\* handleActionResult after delete_pod: "listed" (lines 806-824 and 838, 840),
\* "failed" (the listing returns an error: 806-830)
handleActionResult_Steps(path) ==
    <<Call({"chat"}), Lock("ignoreMu"), Marker("write"), Unlock("ignoreMu"),
      Call({"store", "executor"})>>
    \o (IF path = "failed"
            THEN <<Lock("ignoreMu"), Marker("delete"), Unlock("ignoreMu"), Call({"chat"})>>
            ELSE <<Call({"store", "chat"})>>)

\* what a handler goroutine may run for incident id
Handlers(id) ==
    [handleTextMessage |-> {handleTextMessage_Steps(path) :
                                path \in {"none", "reject", "replicas", "hardware"}},
     handleSetStatus |-> {handleSetStatus_Steps(id, path) :
                              path \in {"rejected", "resolved"}},
     handleScaleDeployment |-> {handleScaleDeployment_Steps},
     showIncidentView |-> {showIncidentView_Steps(id, m) :
                               m \in {PrimaryMsg(id), ListMsg(id)}},
     handleActionResult |-> {handleActionResult_Steps(path) :
                                 path \in {"listed", "failed"}}]

\* what the two listeners may run for incident id
Listeners(id) ==
    [startNotifier |-> {handleLowSeverityIncident_Steps(id),
                        handleHighSeverityIncident_Steps(id)},
     startUpdateListener |-> {startUpdateListener_Steps(id, path) :
                                  path \in {"ignored", "unbound", "open", "closed"}}]

HeldLocks(g) == {h[1] : h \in goroutines[g].held}
Next_(g) == Head(goroutines[g].code)
At(g, op) == goroutines[g].code # <<>> /\ Next_(g).op = op

IsRange(step) == step.op = "viewRegistry" /\ step.arg = "range"
IsLookup(step) == step.op = "viewRegistry" /\ step.arg = "lookup"

\* the loop of updateIncidentView over the surface set of incident id is
\* under way in goroutine g: the lookup is done, the loop is not over
Ranging(g, id) ==
    /\ \E i \in DOMAIN goroutines[g].code : goroutines[g].code[i] = Registry("range", id)
    /\ \A i \in DOMAIN goroutines[g].code : ~IsLookup(goroutines[g].code[i])

\* the set the loop of g is over: the registry's, or the one the registry dropped
RangedOver(g) ==
    IF goroutines[g].live THEN viewRegistry[Next_(g).id] ELSE goroutines[g].views

lockFrame ==
    UNCHANGED <<storeVars, pc, loc, last, chanVars, ignoreNextUpdateFor, messages, topics,
                alertChannelID, executor, webhookToken, sweepVars, probeVars, returned,
                consoleVars>>

\* a goroutine that is between two functions starts one
Go(g, code) ==
    /\ goroutines[g].code = <<>>
    /\ ~goroutines[g].fatal
    /\ goroutines' = [goroutines EXCEPT ![g].code = code]
    /\ UNCHANGED viewRegistry
    /\ lockFrame

\* sync.RWMutex: Lock waits until nobody holds the lock, RLock until no
\* writer holds it
Acquire(g, l, mode) ==
    /\ \A o \in Goroutines : \A h \in goroutines[o].held :
           h[1] = l => mode = "r" /\ h[2] = "r" /\ o # g
    /\ goroutines' = [goroutines EXCEPT ![g].held = @ \cup {<<l, mode>>},
                                        ![g].code = Tail(@)]
    /\ UNCHANGED viewRegistry

Release(g, l, mode) ==
    /\ <<l, mode>> \in goroutines[g].held
    /\ goroutines' = [goroutines EXCEPT ![g].held = @ \ {<<l, mode>>},
                                        ![g].code = Tail(@)]
    /\ UNCHANGED viewRegistry

\* calls, or accesses to userStates or to ignoreNextUpdateFor
Proceed(g) ==
    /\ goroutines' = [goroutines EXCEPT ![g].code = Tail(@)]
    /\ UNCHANGED viewRegistry

\* views, ok := b.viewRegistry[incident.ID]; without an entry the function
\* returns before its loop
LookupViews(g) ==
    LET ok == viewRegistry[Next_(g).id] # <<>>
    IN  /\ goroutines' =
               [goroutines EXCEPT
                   ![g].live = ok,
                   ![g].code = IF ok THEN Tail(@)
                               ELSE SelectSeq(Tail(@), LAMBDA step : ~IsRange(step))]
        /\ UNCHANGED viewRegistry

\* for key, editable := range views: the loop takes a surface it has not
\* visited and edits it, or is over.  A loop over a set that was written to
\* meanwhile may also miss surfaces, or the runtime stops the process
\* ("concurrent map iteration and map write")
Range(g, outcome) ==
    LET todo == DOMAIN RangedOver(g) \ goroutines[g].seen
    IN  /\ outcome \in (IF todo # {} THEN {"next"} ELSE {"over"})
                       \cup (IF goroutines[g].raced THEN {"over", "fatal"} ELSE {})
        /\ goroutines' =
               CASE outcome = "next" ->
                        [goroutines EXCEPT
                            ![g].seen = @ \cup {CHOOSE k \in todo : TRUE},
                            ![g].code = <<Call({"chat"})>> \o @]
                 [] outcome = "over" ->
                        [goroutines EXCEPT ![g] = [NoGoroutine EXCEPT
                                                      !.held = goroutines[g].held,
                                                      !.code = Tail(goroutines[g].code)]]
                 [] OTHER ->
                        [o \in Goroutines |-> [NoGoroutine EXCEPT !.fatal = TRUE]]
        /\ UNCHANGED viewRegistry

\* b.viewRegistry[incidentID][key] = editable: a loop that is over the same
\* set in another goroutine is written under
Add(g) ==
    LET id == Next_(g).id
        editable == Editable(ChatOf(Next_(g).msg), Next_(g).msg)
    IN  /\ viewRegistry' = addIncidentView(viewRegistry, id, editable)
        /\ goroutines' =
               [o \in Goroutines |->
                   IF o = g THEN [goroutines[o] EXCEPT !.code = Tail(@)]
                   ELSE IF Ranging(o, id) /\ goroutines[o].live
                            THEN [goroutines[o] EXCEPT !.raced = TRUE]
                            ELSE goroutines[o]]

\* delete(b.viewRegistry, incidentID): a loop over the set goes on over the
\* set as it was dropped
Remove(g) ==
    LET id == Next_(g).id
    IN  /\ viewRegistry' = removeIncidentView(viewRegistry, id)
        /\ goroutines' =
               [o \in Goroutines |->
                   IF o = g THEN [goroutines[o] EXCEPT !.code = Tail(@)]
                   ELSE IF Ranging(o, id) /\ goroutines[o].live
                            THEN [goroutines[o] EXCEPT !.live = FALSE,
                                                       !.views = viewRegistry[id]]
                            ELSE goroutines[o]]

\* goroutine g takes the next step of its function
Run(g) ==
    /\ goroutines[g].code # <<>>
    /\ lockFrame
    /\ \/ At(g, "Lock") /\ Acquire(g, Next_(g).arg, "w")
       \/ At(g, "RLock") /\ Acquire(g, Next_(g).arg, "r")
       \/ At(g, "Unlock") /\ Release(g, Next_(g).arg, "w")
       \/ At(g, "RUnlock") /\ Release(g, Next_(g).arg, "r")
       \/ Next_(g).op \in {"call", "userStates", "ignoreNextUpdateFor"} /\ Proceed(g)
       \/ IsLookup(Next_(g)) /\ LookupViews(g)
       \/ IsRange(Next_(g)) /\ \E outcome \in {"next", "over", "fatal"} : Range(g, outcome)
       \/ At(g, "viewRegistry") /\ Next_(g).arg = "add" /\ Add(g)
       \/ At(g, "viewRegistry") /\ Next_(g).arg = "remove" /\ Remove(g)

\* the incident the goroutines of this specification are about
Watched == 1

Start ==
    \/ \E fn \in DOMAIN Handlers(Watched) : \E code \in Handlers(Watched)[fn] :
           Go("handler", code)
    \/ \E g \in DOMAIN Listeners(Watched) : \E code \in Listeners(Watched)[g] :
           Go(g, code)

InitLock == Wired(1, "mock")
NextLock == Start \/ \E g \in Goroutines : Run(g)
LockSpec == InitLock /\ [][NextLock]_vars

(***************************************************************************)
(* The set-status control with the status text its token carries.          *)
(***************************************************************************)
\* the texts the third field of a set-status token may carry: the three of
\* models.IncidentStatus and one that is none of them
StatusTexts == IncidentStatus \cup {"closed"}

\* handleSetStatus: status := models.IncidentStatus(parts[2]) is the text of
\* the token as it came; "rejected" asks for the reason (lines 661-666), any
\* other text goes to UpdateStatus (line 668)
handleSetStatus_Token(p, user, m, status) ==
    IF status = StatusRejected
        THEN handleSetStatus_Rejected(user, m)
        ELSE /\ m \in DOMAIN messages
             /\ "ss" \in Buttons(m)
             /\ handler[p] = NoHandler
             /\ UpdateStatus_Find(p, user, messages[m].Incident, status, "")
             /\ handler' = Handling(p, IF status = StatusResolved THEN "set_status"
                                                                  ELSE "set_status_kept",
                                    m, user)
             /\ UNCHANGED <<userStates, owed>>

\* handleSetStatus, lines 672-673 and 684: for a status that closes nothing
\* the confirmation is sent and the pressed message is deleted
handleSetStatus_Delete(p, deleteOk) ==
    /\ handler[p].name = "set_status_kept"
    /\ handler[p].step = "returned"
    /\ messages' = IF deleteOk
                       THEN [m \in DOMAIN messages \ {handler[p].msg} |-> messages[m]]
                       ELSE messages
    /\ handler' = [handler EXCEPT ![p] = NoHandler]
    /\ last' = Viewed(handler[p].id, "delete")
    /\ UNCHANGED <<storeVars, pc, loc, chanVars, viewRegistry, ignoreNextUpdateFor, topics,
                   cfgVars, returned, userStates, owed>>

SetStatus ==
    \/ \E m \in DOMAIN messages : showCloseOptions(m)
    \/ \E p \in Dispatched, u \in Users, m \in DOMAIN messages, status \in StatusTexts :
           handleSetStatus_Token(p, u, m, status)
    \/ \E p \in Dispatched : handleSetStatus_Remove(p)
    \/ \E p \in Dispatched, editOk \in BOOLEAN : handleSetStatus_Show(p, editOk)
    \/ \E p \in Dispatched, deleteOk \in BOOLEAN : handleSetStatus_Delete(p, deleteOk)

InitStatus == Wired(1, "mock")
NextStatus == Page \/ Send \/ Receive \/ Update \/ SetStatus \/ StatusCall
StatusSpec == InitStatus /\ [][NextStatus]_vars

(***************************************************************************)
(* Properties.                                                             *)
(***************************************************************************)
IsPrefix(s, t) == Len(s) <= Len(t) /\ SubSeq(t, 1, Len(s)) = s

Terminal == {StatusResolved, StatusRejected}

WithFingerprint(fp) == {i \in DOMAIN incidents : incidents[i].Fingerprint = fp}

\* the step just taken wrote the incident of an ExecuteAction / UpdateStatus call
Persisted(op) == last.op = op /\ last.step = "persist"

\* the records the step just taken added to the audit_records table
Added == SubSeq(auditRecords, Len(last.before.auditRecords) + 1, Len(auditRecords))

\* C1: a CreateIncidentFromAlert call for a fingerprint, made while the incident
\* an earlier call returned for that fingerprint is still Active, returns (unless
\* the lookup itself fails) that same incident id without an error, and exactly
\* one incident with the fingerprint is stored afterwards.
C1_SecondCallReturnsSameIncident ==
    (last.op = "create" /\ last.step = "return" /\ last.call.prev # 0 /\ last.err # "db")
        => /\ last.err = ""
           /\ last.id = last.call.prev
           /\ Cardinality(WithFingerprint(incidents[last.id].Fingerprint)) = 1

C1_Witness ==
    /\ last.op = "create" /\ last.step = "return"
    /\ last.call.prev # 0
    /\ last.err = ""
    /\ last.id = last.call.prev

\* C2: whatever the interleaving of the lookup and create steps of concurrent
\* CreateIncidentFromAlert calls with UpdateStatus calls, no two stored
\* incidents that are both Active have the same fingerprint.
C2_OneActivePerFingerprint ==
    \A i, j \in DOMAIN incidents :
        (/\ incidents[i].Status = StatusActive
         /\ incidents[j].Status = StatusActive
         /\ incidents[i].Fingerprint = incidents[j].Fingerprint) => i = j

\* two calls looked the fingerprint up before either created it: the create of
\* the second is refused, while an UpdateStatus call on the first is in flight
C2_Witness ==
    /\ last.op = "create" /\ last.step = "return"
    /\ last.err = "unique"
    /\ last.call.found.ID = 0
    /\ \E p \in Callers : pc[p] = "status_update"

\* C3: every change of a stored incident's status is from Active to Resolved or
\* from Active to Rejected; a Resolved or Rejected incident keeps its status
\* whatever a later call requests.
C3_OnlyActiveToTerminal ==
    \A i \in DOMAIN last.before.incidents :
        last.before.incidents[i].Status # incidents[i].Status
            => /\ last.before.incidents[i].Status = StatusActive
               /\ incidents[i].Status \in Terminal

\* C4: an UpdateStatus call on an incident that was already Resolved or Rejected
\* when the call loaded it does not leave the incident's audit log with two
\* update_status records that name different final statuses.
C4_NoDisagreeingFinalStatus ==
    (Persisted("status") /\ last.call.found.Status \in Terminal)
        => LET log == AuditLogOf(last.id)
               finals == {log[k].new_status : k \in
                             {n \in DOMAIN log : /\ log[n].Action = "update_status"
                                                 /\ log[n].new_status \in Terminal}}
           IN  Cardinality(finals) <= 1

\* C5: the step with which an ExecuteAction or UpdateStatus call persists its
\* incident lengthens the stored audit log of that incident by exactly one
\* record and leaves the stored audit log of every other incident as it was.
C5_OneRecordPerCall ==
    (Persisted("execute") \/ Persisted("status"))
        => \A i \in IncidentIDs :
              LET was == AuditLogIn(last.before.auditRecords, i)
              IN  IF i = last.id
                      THEN Len(AuditLogOf(i)) = Len(was) + 1
                      ELSE AuditLogOf(i) = was

\* a call persists its incident while another incident has audit records
C5_Witness ==
    /\ (Persisted("execute") \/ Persisted("status"))
    /\ \E i \in IncidentIDs : i # last.id /\ AuditLogOf(i) # <<>>

\* C6: in every step of every interleaving the stored audit log of each incident
\* before the step is a prefix of its stored audit log after the step, so what
\* is read at any time is a prefix of what is read at any later time.
C6_AuditLogPrefixStable ==
    [][\A i \in IncidentIDs : IsPrefix(AuditLogOf(i), AuditLogOf(i)')]_vars

\* a call writes back a copy it loaded before another call's record was stored
C6_Witness ==
    /\ (Persisted("execute") \/ Persisted("status"))
    /\ Len(last.call.found.AuditLog) < Len(AuditLogIn(last.before.auditRecords, last.id))
    /\ Len(AuditLogOf(last.id)) = 2

\* C7: the step with which ExecuteAction persists adds one audit record of the
\* requested action whether the Executor succeeded or failed; the record's
\* success flag is true exactly when the result carries no error; when the
\* result carries an error the stored status is the status the call loaded.
C7_AuditedWhateverTheOutcome ==
    Persisted("execute")
        => /\ Len(Added) = 1
           /\ Added[1].IncidentID = last.id
           /\ Added[1].Action = last.call.req.Action
           /\ Added[1].Success <=> (last.result.Error = "")
           /\ last.result.Error # "" => incidents[last.id].Status = last.call.found.Status

C7_Witness ==
    /\ Persisted("execute")
    /\ last.result.Error # ""
    /\ Len(Added) = 1 /\ ~Added[1].Success
    /\ incidents[last.id].Status = last.call.found.Status

RollbackDone(step) ==
    /\ last.op = "execute" /\ last.step = step /\ last.err = ""
    /\ last.call.req.Action = ActionRollbackDeployment
    /\ last.result.Error = ""

C10_RejectLeavesActiveListing ==
    (/\ Persisted("status")
     /\ last.call.req.Status = StatusRejected
     /\ last.call.found.Status = StatusActive)
        => /\ incidents[last.id].Status = StatusRejected
           /\ incidents[last.id].RejectionReason = last.call.req.Reason
           /\ Len(Added) = 1
           /\ Added[1].IncidentID = last.id
           /\ last.id \notin ListActive

C10_Witness ==
    /\ Persisted("status")
    /\ last.call.req.Status = StatusRejected
    /\ last.call.req.Reason # ""
    /\ last.call.found.Status = StatusActive
    /\ incidents[last.id].RejectionReason = last.call.req.Reason
    /\ last.id \notin ListActive

\* the incident is waiting to be received by the notification listener
Pending(id) ==
    \/ id \in notifySenders
    \/ \E k \in DOMAIN notificationChan : notificationChan[k] = id

\* C11: a CreateIncidentFromAlert call whose lookup finds only a Resolved or
\* Rejected incident with the fingerprint returns without an error a new Active
\* incident with a new id, which is on its way to the notification listener.
C11_RecurrenceCreatesNewIncident ==
    (/\ last.op = "create" /\ last.step = "return"
     /\ last.call.found.ID # 0
     /\ last.call.found.Status \in Terminal
     /\ last.err # "db")
        => /\ last.err = ""
           /\ last.id # last.call.found.ID
           /\ last.id \in DOMAIN incidents
           /\ incidents[last.id].Status = StatusActive
           /\ Pending(last.id)

\* C12: when the store update fails inside ExecuteAction, the call returns the
\* persistence error together with the result the Executor gave: the result
\* that went into the call's audit record, neither dropped nor replaced.
C12_ResultSurvivesPersistenceFailure ==
    (last.op = "execute" /\ last.step = "return" /\ last.err = "db")
        => LET log == last.call.incident.AuditLog
           IN  /\ last.result = last.call.result
               /\ last.result \in {ExecutorResult(o) : o \in ExecutorOutcomes}
               /\ log # <<>>
               /\ log[Len(log)].Result = last.result.Message
               /\ log[Len(log)].Success <=> (last.result.Error = "")

C12_Witness ==
    /\ last.op = "execute" /\ last.step = "return" /\ last.err = "db"
    /\ last.result.Message = "done"
    /\ auditRecords = <<>>

\* C13: a CreateIncidentFromAlert call that has looked its fingerprint up can
\* always take its creating and returning step, whatever the notification
\* channel holds: the send is left to a goroutine of its own.
C13_CreateDoesNotWaitForNotification ==
    \A p \in Callers : pc[p] = "create" => ENABLED CreateIncidentFromAlert_Create(p)

\* a create returned while the channel was full and its incident not yet sent
C13_Witness ==
    /\ last.op = "create" /\ last.step = "return" /\ last.err = ""
    /\ Len(notificationChan) = NotifChanCap
    /\ last.id \in notifySenders
    /\ last.id \in DOMAIN incidents

\* how often the incident is in the notification channel
Queued(id) == Cardinality({k \in DOMAIN notificationChan : notificationChan[k] = id})

\* C14: a sender is spawned for an incident by the step that creates it and by
\* no other; the incident enters the notification channel once, when its sender
\* leaves; a call that returns an existing incident spawns and sends nothing;
\* and every incident that waits for the listener is eventually received.
C14_NotifiedExactlyOnce ==
    /\ [][\A id \in IncidentIDs :
            /\ (id \notin notifySenders /\ id \in notifySenders')
                   <=> (id \notin DOMAIN incidents /\ id \in DOMAIN incidents')
            /\ Queued(id)' > Queued(id)
                   => /\ Queued(id)' = Queued(id) + 1
                      /\ id \in notifySenders /\ id \notin notifySenders'
                      /\ Queued(id) = 0
            /\ (last'.op = "create" /\ last'.step = "return" /\ last'.call.found.ID # 0)
                   => UNCHANGED <<notifySenders, notificationChan>>]_vars
    /\ \A id \in IncidentIDs : Pending(id) ~> ~Pending(id)

\* an incident has been received and posted, and a later alert with its
\* fingerprint was answered with it
C14_Witness ==
    /\ last.op = "create" /\ last.step = "return" /\ last.err = ""
    /\ last.call.found.ID = last.id
    /\ ~Pending(last.id)
    /\ PrimaryMsg(last.id) \in DOMAIN messages

\* nothing is in flight: no call, no handler, no event
Quiet ==
    /\ updateChan = <<>>
    /\ notificationChan = <<>>
    /\ notifySenders = {}
    /\ \A p \in Callers : pc[p] = "idle" /\ handler[p] = NoHandler

\* C15: once a change of an incident's stored state has been processed (the
\* call and its handler have returned, the update listener has received the
\* event), no surface that was registered for the incident when the state
\* changed is left without an edit showing the incident afresh, unless the
\* chat platform refused the edit; this for every incident that was posted
\* in the alert channel.
C15_EverySurfaceEdited ==
    Quiet => \A id \in DOMAIN incidents :
                 incidents[id].TelegramMessageID # NULL => owed[id] = {}

\* C16: the registry holds one entry per surface, however often the surface
\* was registered: no two entries of an incident are the same (chat, message),
\* and a step that registers a surface already registered leaves the
\* incident with as many entries as it had.
C16_OneEntryPerSurface ==
    /\ \A id \in IncidentIDs : \A k1, k2 \in DOMAIN viewRegistry[id] :
           viewRegistry[id][k1] = viewRegistry[id][k2] => k1 = k2
    /\ (last.op = "view" /\ last.step = "register" /\ ViewsIn(last.views) = Views(last.id))
           => Cardinality(DOMAIN viewRegistry[last.id]) = Cardinality(DOMAIN last.views)

\* a surface that was registered has just been registered once more
C16_Witness ==
    /\ last.op = "view"
    /\ last.step = "register"
    /\ last.views # <<>>
    /\ ViewsIn(last.views) = Views(last.id)
    /\ Cardinality(DOMAIN viewRegistry[last.id]) = 2

\* the registered surfaces of incident id that the update protocol treats as
\* primary detail surfaces: those it gives the full control set
PrimaryViews(id) == {m \in Views(id) : KeyboardFor(FindByID(id), m) = "incident"}

\* C17: once the handler that closed an incident is done (nothing is in
\* flight), no primary detail surface is registered for an incident whose
\* status is Resolved or Rejected.
C17_NoPrimaryViewOnceClosed ==
    Quiet => \A id \in DOMAIN incidents :
                 incidents[id].Status \in Terminal => PrimaryViews(id) = {}

\* C18: the pruning that follows a terminal transition leaves the summary
\* of the incident registered: if the summary posted in the alert channel
\* was a view of the incident when handleSetStatus pruned its views, it
\* still is one after the pruning.
C18_SummaryStaysRegistered ==
    (/\ last.op = "view"
     /\ last.step = "remove"
     /\ SummaryMsg(last.id) \in ViewsIn(last.views))
        => SummaryMsg(last.id) \in Views(last.id)

\* C19: when the update listener has received an event that no suppression
\* marker covers, every view of the incident whose edit the chat platform
\* did not refuse shows the incident as the store holds it, whatever the
\* payload of the event says besides the id.
C19_OnlyTheFetchedIncidentDecides ==
    (last.op = "update" /\ last.step # "ignored")
        => \A m \in ViewsIn(last.views) \ last.failed :
               messages[m] = Rendering(FindByID(last.id), KeyboardFor(FindByID(last.id), m))

\* C20: an iteration of the update listener that edits the views of an
\* incident edits every one of them that the chat platform does not refuse,
\* however many it refuses, and the listener is ready for the next event
\* whenever one is waiting.
C20_FailedEditStopsNothing ==
    /\ (last.op = "update" /\ last.step = "edited")
           => \A m \in ViewsIn(last.views) \ last.failed :
                  messages[m] = Rendering(FindByID(last.id),
                                          KeyboardFor(FindByID(last.id), m))
    /\ updateChan # <<>> => ENABLED Update

\* the listener has just been refused the edit of one view and has edited
\* another, which now shows a state it did not show when it was posted
C20_Witness ==
    /\ last.op = "update"
    /\ last.step = "edited"
    /\ last.failed # {}
    /\ \E m \in ViewsIn(last.views) \ last.failed :
           /\ messages[m].Status = incidents[last.id].Status
           /\ messages[m].History = Len(AuditLogOf(last.id))
           /\ messages[m].History > 0

\* the interaction flows an operator has pending
PendingFlows(u) ==
    {flow \in {"reject", "replicas", "resources"} :
        \/ flow = "reject" /\ userStates[u].AwaitingRejectReasonFor # 0
        \/ flow = "replicas" /\ userStates[u].AwaitingReplicaCountFor # NoInputState
        \/ flow = "resources" /\ userStates[u].AwaitingHardwareRequestFor # NoInputState}

\* C21: an operator never has two of the three flows (a rejection reason, a
\* replica count, a hardware request) pending at the same time.
C21_OnePendingFlow ==
    \A u \in Users : Cardinality(PendingFlows(u)) <= 1

\* C21: an operator who was asked for a rejection reason and then pressed
\* the scaling button has both flows pending.
C21_TwoFlowsPending ==
    \E u \in Users : {"reject", "replicas"} \subseteq PendingFlows(u)

\* a step in which a text of operator u was consumed by one of u's flows
Consumed(u) ==
    /\ last'.op # "flow"
    /\ PendingFlows(u)' # PendingFlows(u)
    /\ PendingFlows(u)' \subseteq PendingFlows(u)

\* C22: a flow started while another is pending replaces it: the text that
\* follows the start of a flow is consumed by that flow, and no earlier flow
\* is left to run.
C22_LatestFlowAnswers ==
    [][\A u \in Users :
          last.op = "flow" /\ last.call.req.UserID = u /\ Consumed(u)
              => /\ PendingFlows(u) \ PendingFlows(u)' = {last.step}
                 /\ PendingFlows(u)' = {}]_vars

\* a text that is a non-negative integer: decimal digits, a "+" before them
\* at most
IsCount(text) ==
    LET digits == IF text # <<>> /\ Head(text) = "+" THEN Tail(text) ELSE text
    IN  /\ digits # <<>>
        /\ \A i \in 1..Len(digits) : IsDigit(digits[i])

SaysInvalid(answer) ==
    /\ answer.responded
    /\ answer.text \in {"Invalid incident ID", "Invalid callback data", "Invalid action index"}

\* a token that is refused: said to be invalid, no panic, no work done on it
Refused(answer) == SaysInvalid(answer) /\ ~answer.panicked /\ ~answer.worked

\* C24: the token "xy", which has neither a delimiter nor an id, is answered
\* with a visible "invalid" acknowledgement, without a panic and without
\* any work of a handler on the state.
C24_BareTokenRefused ==
    input = <<"xy">> /\ output # <<>> => Refused(output[1])

\* a token with a known prefix whose id is no number or that has fewer
\* fields than its handler reads
Malformed(data) ==
    LET parts == Split(data)
    IN  /\ \E word \in KnownPrefixes : parts[1] = <<word>>
        /\ \/ Len(parts) < Arity[parts[1][1]]
           \/ ~ParseUint(parts[2])

\* C25: every token with a known prefix and a non-numeric id or too few
\* fields is answered with a visible "invalid" acknowledgement, without a
\* panic in its handler and without any work on the state.
C25_MalformedTokenRefused ==
    output # <<>> /\ Malformed(input) => Refused(output[1])

\* the ids of the incidents a tick of the retention job is going to send
Found == {sweep.found[i].ID : i \in DOMAIN sweep.found}

\* the incident is closed and ended before the threshold of the tick
Expired(id) ==
    /\ incidents[id].Status \in {StatusResolved, StatusRejected}
    /\ incidents[id].EndsAt < sweep.threshold

\* the incident is bound to a thread: its topic id is neither NULL nor the 0
\* written when the thread was deleted
HasThread(id) == incidents[id].TelegramTopicID \notin {NULL, 0}

\* C26: a tick of DeleteOldIncidentTopics takes exactly the closed incidents
\* that ended before the threshold and are still bound to a thread; never an
\* Active incident or one without a thread.
C26_SweepTakesExpiredThreads ==
    last.op = "sweep" /\ last.step = "found"
        => Found = {id \in DOMAIN incidents : Expired(id) /\ HasThread(id)}

\* C27: the binding of a thread is cleared only when the platform has deleted
\* the thread; until then every tick takes the expired incident again; once
\* it is cleared no tick takes it.
C27_ClearedOnceConfirmed ==
    [][/\ \A id \in DOMAIN incidents :
             incidents[id].TelegramTopicID # 0 /\ incidents'[id].TelegramTopicID = 0
                 => /\ TopicOf(id) \in DOMAIN topics'
                    /\ topics'[TopicOf(id)] = "deleted"
       /\ last'.op = "sweep" /\ last'.step = "found"
             => /\ \A id \in DOMAIN incidents : Expired(id)' /\ HasThread(id)' => id \in Found'
                /\ \A id \in Found' : incidents'[id].TelegramTopicID # 0]_vars

\* the header is a scheme, one space and a credential without spaces
IsBearer(header, schemes) ==
    /\ Len(header) >= 3
    /\ header[1] \in schemes
    /\ header[2] = " "
    /\ \A i \in 3..Len(header) : header[i] # " "

\* what the rule of the webhook's authorization asks of a request, the
\* scheme being one of schemes
Asked(header, schemes) ==
    IF webhookToken = <<>> THEN Next_ServeHTTP
    ELSE IF ~IsBearer(header, schemes) THEN Error(StatusUnauthorized)
    ELSE IF SubSeq(header, 3, Len(header)) # webhookToken THEN Error(StatusForbidden)
    ELSE Next_ServeHTTP

\* the rule holds of every request, and an incident is created only by a
\* request that was handed on
Authorized(schemes) ==
    /\ last'.op = "webhook"
           => /\ output'[1] = Asked(input'[1], schemes)
              /\ ~output'[1].next => handler' = handler /\ incidents' = incidents /\ pc' = pc
    /\ incidents' # incidents => output # <<>> /\ output[1].next

\* C28 as stated: a request reaches the alert handler exactly when no secret
\* is configured or its Authorization header is "Bearer <secret>"; with a
\* secret, a missing or non-Bearer header is answered 401 and a wrong token
\* 403, and no rejected request creates an incident.
C28_BearerSecretOnly == [][Authorized({"Bearer"})]_vars

\* C28 as the code has it: the same, with the scheme "Bearer" written in
\* any letter case.
C28_BearerAnyCase == [][Authorized({"Bearer", "bearer"})]_vars

\* C28: with the secret "s" configured, the header "bearer s" was handed on
\* and an incident created.
C28_Witness ==
    /\ webhookToken = <<"s">>
    /\ input = <<<<"bearer", " ", "s">>>>
    /\ output = <<Next_ServeHTTP>>
    /\ incidents # <<>>

\* the labels of an alert under the keys of keys
Restricted(labels, keys) == [k \in DOMAIN labels \cap keys |-> labels[k]]

\* C29: the incident made of an alert is Active, has the alert's fingerprint
\* and all its labels unchanged, its summary and description are the alert's
\* annotations of those names, and its affected resources are the alert's
\* labels under the keys deployment, pod and namespace, and no other.
C29_IncidentOfAlert ==
    output # <<>>
        => /\ output[1].Status = StatusActive
           /\ output[1].Fingerprint = input.Fingerprint
           /\ output[1].Labels = input.Labels
           /\ output[1].Summary = Lookup(input.Annotations, "summary")
           /\ output[1].Description = Lookup(input.Annotations, "description")
           /\ output[1].AffectedResources =
                  Restricted(input.Labels, {"deployment", "pod", "namespace"})

\* C29: an incident was made of an alert with a severity and an alert name
\* next to its deployment and namespace, and only the two are its affected
\* resources.
C29_Witness ==
    /\ output # <<>>
    /\ {"alertname", "severity", "deployment", "namespace"} \subseteq DOMAIN input.Labels
    /\ DOMAIN output[1].AffectedResources = {"deployment", "namespace"}
    /\ output[1].Summary = "Test Summary"

\* the incident is one of the suggester's rules: a deployment short of
\* replicas, or a pod that keeps crashing
MatchesRule(incident) ==
    \/ /\ "alertname" \in DOMAIN incident.Labels
       /\ incident.Labels["alertname"] = "KubeDeploymentReplicasMismatch"
       /\ "deployment" \in DOMAIN incident.AffectedResources
    \/ /\ "alertname" \in DOMAIN incident.Labels
       /\ incident.Labels["alertname"] = "KubePodCrashLooping"
       /\ "pod" \in DOMAIN incident.AffectedResources

\* C30: for an incident named KubeDeploymentReplicasMismatch with a
\* deployment D and a namespace N the suggestions contain a rollback with
\* the parameters deployment = D and namespace = N; for an incident that
\* matches no rule the list is empty.
C30_RollbackSuggested ==
    Len(output) = 2
        => /\ /\ "alertname" \in DOMAIN output[1].Labels
              /\ output[1].Labels["alertname"] = "KubeDeploymentReplicasMismatch"
              /\ {"deployment", "namespace"} \subseteq DOMAIN output[1].AffectedResources
              => \E i \in DOMAIN output[2] :
                     /\ output[2][i].Action = ActionRollbackDeployment
                     /\ output[2][i].Parameters =
                            [deployment |-> output[1].AffectedResources["deployment"],
                             namespace |-> output[1].AffectedResources["namespace"]]
           /\ ~MatchesRule(output[1]) => output[2] = <<>>

\* C30: the rollback of frontend in guestbook was suggested.
C30_Witness ==
    /\ Len(output) = 2
    /\ output[2] = <<[Action |-> ActionRollbackDeployment,
                      Parameters |-> [deployment |-> "frontend", namespace |-> "guestbook"]]>>

\* C31: when the Executor call of an ExecuteAction did not complete (the
\* client returned its zero result), the step that persists the incident
\* adds one audit record, and that record has success = false.
C31_TimeoutAuditedAsFailure ==
    (Persisted("execute") /\ last.result = NoResult)
        => /\ Len(Added) = 1
           /\ ~Added[1].Success

\* the calls that have persisted their incident and not yet sent its event
Announcing == {p \in Callers : pc[p] \in {"exec_enqueue", "status_enqueue"}}

\* the persisted mutations whose event the update listener has not taken yet
\* are those whose call is still to send and those whose event is queued
Unannounced == Len(auditRecords) - Len(updateChan) - Cardinality(Announcing)

\* C32: a call that has persisted its mutation leaves only by appending its
\* event to the update queue, and cannot while the queue is full; the queue
\* changes only by such an append at its end or by the listener taking its
\* head; so every persisted mutation is matched by exactly one event that is
\* to be sent, queued, or taken by the listener.
C32_EveryMutationAnnounced ==
    [][/\ \A p \in Announcing :
              p \notin Announcing'
                  => /\ Len(updateChan) < UpdateChanCap
                     /\ updateChan' = Append(updateChan, Event(loc[p].incident))
       /\ updateChan' # updateChan
              => \/ /\ updateChan # <<>>
                    /\ updateChan' = Tail(updateChan)
                    /\ last'.op = "update"
                    /\ last'.id = Head(updateChan).ID
                 \/ /\ Len(updateChan) < UpdateChanCap
                    /\ \E p \in Announcing \ Announcing' :
                           updateChan' = Append(updateChan, Event(loc[p].incident))
       /\ Unannounced' = Unannounced + (IF last'.op = "update" THEN 1 ELSE 0)]_vars

\* C32: the listener has just taken the event that filled the queue, while a
\* call that has persisted its mutation was waiting to send its own.
C32_Witness ==
    /\ last.op = "update"
    /\ updateChan = <<>>
    /\ Announcing # {}
    /\ Len(auditRecords) = 2

\* what the rule of the suppression marker asks of a step, for every
\* incident I whose marker is set: the listener taking an event for I edits
\* nothing and clears the marker; the listener taking an event for another
\* incident leaves the marker of I and treats that event as it would without
\* it; and no other step clears the marker of I, except, if takenBack, the
\* step in which the handler that set it takes it back
MarkerRule(takenBack) ==
    \A I \in ignoreNextUpdateFor :
        /\ (last'.op = "update" /\ last'.id = I)
               => /\ last'.step = "ignored"
                  /\ messages' = messages
                  /\ topics' = topics
                  /\ ignoreNextUpdateFor' = ignoreNextUpdateFor \ {I}
        /\ (last'.op = "update" /\ last'.id # I)
               => /\ I \in ignoreNextUpdateFor'
                  /\ last'.id \notin ignoreNextUpdateFor
                         => last'.step = IF Head(updateChan).TelegramMessageID = NULL
                                             THEN "skipped" ELSE "edited"
        /\ ~(last'.op = "update" /\ last'.id = I)
               => \/ I \in ignoreNextUpdateFor'
                  \/ takenBack /\ last'.op = "view" /\ last'.step = "unmark" /\ last'.id = I

\* C33 as stated: while the marker of incident I is set, the next update
\* event for I that the listener takes edits no surface and clears the
\* marker, events for other incidents are processed normally, and as long
\* as no event for I is taken the marker stays set.
C33_MarkerUntilNextEvent == [][MarkerRule(FALSE)]_vars

\* C33 as the code has it: the same, except that the handler that set the
\* marker takes it back itself when its listing call returns an error.
C33_MarkerUntilNextEventOrError == [][MarkerRule(TRUE)]_vars

\* C33: the listener has just ignored an event for an incident and cleared
\* its marker, while the handler that set the marker waits to list the pods.
C33_Witness ==
    /\ last.op = "update"
    /\ last.step = "ignored"
    /\ last.id \notin ignoreNextUpdateFor
    /\ last.views # <<>>
    /\ \E p \in Dispatched : handler[p].name = "list_pods" /\ handler[p].id = last.id

\* every action recorded for the incident is a deletion of a pod or the
\* listing that follows it
OnlyDeletions(id) ==
    \A k \in DOMAIN AuditLogOf(id) :
        AuditLogOf(id)[k].Action \in {ActionDeletePod, ActionListPodsForDeployment}

\* C34: once the console has rendered the list of the pods on a surface
\* after a deletion, no step of the update listener for an event of that
\* deletion or of its listing changes what the surface shows.
C34_ListNotOverwritten ==
    [][\A m \in DOMAIN messages :
          /\ messages[m].Keyboard = "pod_list"
          /\ last'.op = "update"
          /\ last'.id = messages[m].Incident
          /\ OnlyDeletions(messages[m].Incident)
          => messages'[m] = messages[m]]_vars

\* C35: when the update listener has edited the views of an incident, every
\* primary detail surface among them (the initial post of the alert, the
\* detail view sent in answer to a command) shows the full control set of
\* the incident view, and the cross-posted summary the navigation-only set.
C35_ControlSetByKind ==
    (last.op = "update" /\ last.step = "edited")
        => \A m \in ViewsIn(last.views) \ last.failed :
               messages[m].Keyboard = IF m = SummaryMsg(last.id) THEN "summary" ELSE "incident"

\* C36: no goroutine of the bot holds more than one of b.mu, b.registryMu and
\* b.ignoreMu, neither while it is about to call into the Store, the
\* Executor or the chat platform nor at any other step: the three locks are
\* never held nested.
C36_OneLockAtATime ==
    \A g \in Goroutines :
        /\ At(g, "call") => Cardinality(HeldLocks(g)) <= 1
        /\ Cardinality(HeldLocks(g)) <= 1

\* the handler is about to call the service and the chat platform for a text
\* of the operator, having given b.mu back, while the update listener holds
\* the registry lock and the notifier is inside a registration of its own
C36_Witness ==
    /\ goroutines["handler"].code = <<Call({"store", "executor", "chat"})>>
    /\ goroutines["handler"].held = {}
    /\ goroutines["startUpdateListener"].held = {<<"registryMu", "r">>}
    /\ At("startNotifier", "Lock")

\* C40: every access to b.viewRegistry is made by a goroutine that holds
\* b.registryMu, the loop of updateIncidentView over the surface set of an
\* incident included, and no registration writes to a surface set while
\* that loop is over it.
C40_RegistryUnderLock ==
    [][/\ \A g \in Goroutines : At(g, "viewRegistry") => "registryMu" \in HeldLocks(g)
       /\ \A g \in Goroutines, id \in IncidentIDs :
              Ranging(g, id) /\ goroutines[g].live
                  => DOMAIN viewRegistry'[id] = DOMAIN viewRegistry[id]
                     \/ viewRegistry'[id] = <<>>]_vars

\* C37: the status of every stored incident is one of Active, Resolved and
\* Rejected, whatever status text the token of a set-status press carried.
C37_StatusOneOfThree ==
    \A id \in DOMAIN incidents : incidents[id].Status \in IncidentStatus

\* C38: a valid text of an operator who has a flow pending starts exactly one
\* call of the service (UpdateStatus with the text as the reason, or
\* ExecuteAction with the stored request) and leaves the operator with no
\* flow pending, so that a later text of the operator, like any text sent
\* with no flow pending, starts no call and changes nothing.
C38_ReplyEndsTheFlow ==
    [][\A p \in Dispatched, u \in Users, text \in Texts, outcome \in ExecutorOutcomes :
          /\ PendingFlows(u) # {}
          /\ handleTextMessage(p, u, text, outcome)
          /\ last'.op # "text"
          => /\ pc'[p] # "idle" \/ last'.step = "return"
             /\ \A q \in Callers \ {p} : pc'[q] = pc[q]
             /\ PendingFlows(u)' = {}]_vars

\* C39: the chat binding of an incident, once SetTelegramMessageID or
\* SetTelegramTopicID has written it, is never taken away by a write of the
\* whole row: no step of ExecuteAction or UpdateStatus that read the
\* incident before the binding was written turns the stored message id or
\* topic id back into NULL.
C39_BindingNeverLost ==
    [][\A id \in DOMAIN incidents :
          /\ incidents[id].TelegramMessageID # NULL
                 => incidents'[id].TelegramMessageID = incidents[id].TelegramMessageID
          /\ incidents[id].TelegramTopicID # NULL
                 => incidents'[id].TelegramTopicID = incidents[id].TelegramTopicID]_vars
====
